---- MODULE Spec2Model ----
(***************************************************************************)
(* puppet-engine: the event dispatch and agent scheduling engine.          *)
(*                                                                         *)
(*   EventEngine   src/puppet-engine-py/src/events/engine.py               *)
(*   AgentManager  src/puppet-engine-py/src/agents/agent_manager.py        *)
(*   Event, Agent  src/puppet-engine-py/src/core/models.py                 *)
(*   PuppetEngine  src/src/main.py                                         *)
(*   EventRouter   src/marionette/events/router.py                         *)
(*                                                                         *)
(* All of them run on one asyncio loop: a coroutine runs without           *)
(* interruption from one await that suspends to the next, so every action  *)
(* below is the code between two suspension points.  The clock `now` is    *)
(* datetime.utcnow() counted in ticks.                                     *)
(***************************************************************************)
EXTENDS Integers, Sequences, FiniteSets, TLC

\* ------------------------------------------------------------------ bounds
MaxEvents == 2          \* events created in one run
MaxTime == 2            \* the latest time an event is scheduled for
MaxStarts == 1          \* calls of EventEngine.start()
MaxLoops == 2           \* calls of EventEngine.start() where restarts are looked at
MaxListenerCalls == 2   \* calls the bus makes of the manager's listeners
MaxRouterEvents == 2    \* events passed to EventRouter.dispatch_event
MaxListeners == 2       \* listeners registered in one run
TicksPerSecond == 2     \* clock resolution of the engine's timers
TicksPerHour == 1       \* clock resolution of the posting schedule
MaxCalls == 2           \* calls of process_agent_reaction and create_agent_post
MaxErrors == 7          \* direct calls of _handle_api_error for one agent
MoodExcess == 1         \* how far past the mood range an event payload goes
MaxRecorded == 1600     \* events dispatched in a run that fills the history
MaxFetches == 2         \* polls of one _stream_mentions_for_agent task
MaxMentions == 1        \* mentions in one answer of _get_agent_mentions
MaxPollTasks == 2       \* _stream_mentions_for_agent tasks created in one run
MaxTicks == 2           \* wakes of one periodic generator that queue events

\* ------------------------------------------------------- program constants
PollInterval == 1       \* asyncio.sleep(1) of the promotion loop, seconds
HistoryMax == 1000      \* len(event_history) > 1000
HistoryKeep == 500      \* event_history[-500:]
DefaultMinHours == 3    \* behavior.get('min_hours_between_posts', 3)
DefaultMaxHours == 12   \* behavior.get('max_hours_between_posts', 12)
BackoffCap == 60        \* min(2 ** count, 60) minutes
MinutesPerHour == 60    \* timedelta(minutes=...) against timedelta(hours=...)
StreamInterval == 60    \* asyncio.sleep(60)  # Check every minute
RetryInterval == 60     \* asyncio.sleep(60)  # Wait before retry
MoodLow == 0            \* 'excitement': random.uniform(0.0, 1.0): the least
MoodHigh == 1           \* and the greatest value a generated mood component takes
LOW == 0
NORMAL == 1
HIGH == 2
CRITICAL == 3

PollTicks == PollInterval * TicksPerSecond

NoTime == -1            \* Optional[datetime] = None
NoAgent == "none"       \* Optional[str] = None
NoEvent == [id |-> 0]

NoTweet == "none"       \* tweet_data.get('id') is None or empty
NoBehavior == [min |-> -1, max |-> -1]   \* no 'post_frequency' in the config
NoCooldown == [at |-> NoTime, minutes |-> 0]
\* a mood: a dict from component names to values
NoMood == [k \in {} |-> 0]
NoTask == 0             \* no entry for the agent in streaming_tasks
\* provider: the agent has an entry in agent_llm_providers
Unloaded == [loaded |-> FALSE, is_active |-> FALSE, behavior |-> NoBehavior,
             last_post_time |-> NoTime, current_mood |-> NoMood, provider |-> FALSE]

AgentIds == {"a1", "a2"}
TweetIds == {"t1", "t2"}
\* 'post_frequency' of an agent's config: absent, or min and max hours
Behaviors == {NoBehavior, [min |-> 0, max |-> 1], [min |-> 1, max |-> 2], [min |-> 2, max |-> 1]}

Priorities == {LOW, NORMAL, HIGH, CRITICAL}
EventTypes == {"agent_post", "mood_event"}
SyncListeners == {"sync"}
AsyncListeners == {"async"}
Listeners == SyncListeners \cup AsyncListeners
Times == 0..MaxTime

VARIABLES
    now,               \* datetime.utcnow()
    event_queue,       \* EventEngine.event_queue
    scheduled_events,  \* EventEngine.scheduled_events
    event_listeners,   \* EventEngine.event_listeners
    is_processing,     \* EventEngine.is_processing
    event_history,     \* EventEngine.event_history
    procTasks,         \* the _process_events tasks created by start()
    schedTasks,        \* the _check_scheduled_events tasks created by start()
    handed,            \* history: the events handed to the engine, in order, and how
    invoked,           \* history: listener invocations, in the order they began
    raised,            \* history: the events for which a listener raised
    stopped,           \* history: stop() has been called
    upSince,           \* history: when is_processing last went from False to True
    agents,            \* AgentManager.agents
    last_post_time,    \* AgentManager.last_post_time
    next_post_times,   \* AgentManager.next_post_times
    api_error_counts,  \* AgentManager.api_error_counts
    api_cooldowns,     \* AgentManager.api_cooldowns
    processed_tweet_ids, \* AgentManager.processed_tweet_ids
    llm_provider,      \* AgentManager.default_llm_provider is not None
    twitter_client,    \* AgentManager.twitter_client is not None
    memory_store,      \* AgentManager.memory_store is not None
    frames,            \* the process_agent_reaction and create_agent_post calls
    llmCalls,          \* history: generate_tweet calls, by tweet or agent
    postCalls,         \* history: post_tweet calls, by tweet or agent
    memCalls,          \* history: store_memory calls, by tweet or agent
    op,                \* history: the last AgentManager method called from outside
    is_streaming,      \* AgentManager.is_streaming
    streaming_tasks,   \* AgentManager.streaming_tasks: agent id -> task
    pollTasks,         \* the _stream_mentions_for_agent tasks created so far
    listenerCalls,     \* the calls the bus has made of AgentManager's listeners
    is_running,        \* PuppetEngine.is_running
    periodic_tasks,    \* PuppetEngine._periodic_tasks
    genTasks,          \* the periodic generator tasks created so far
    main,              \* where PuppetEngine.start() and shutdown() have got to
    handlers,          \* EventRouter._handlers
    agent_handlers,    \* EventRouter._agent_handlers
    router_queue,      \* EventRouter._event_queue
    processing_task,   \* EventRouter._processing_task: the _process_events task
    called,            \* history: the handler calls EventRouter made, in order
    taken              \* history: the events _process_events took from the queue

engineVars == <<event_queue, scheduled_events, event_listeners, is_processing,
                event_history, procTasks, schedTasks>>
historyVars == <<handed, invoked, raised, stopped, upSince>>
mgrVars == <<agents, last_post_time, next_post_times, api_error_counts, api_cooldowns,
             processed_tweet_ids, llm_provider, twitter_client, memory_store, frames,
             llmCalls, postCalls, memCalls, op>>
streamVars == <<is_streaming, streaming_tasks, pollTasks>>
appVars == <<is_running, periodic_tasks, genTasks, main>>
routerVars == <<handlers, agent_handlers, router_queue, processing_task, called, taken>>
vars == <<now, engineVars, historyVars, mgrVars, streamVars, appVars, listenerCalls, routerVars>>

\* ------------------------------------------------------------------ helpers
Range(s) == {s[i] : i \in 1..Len(s)}

RECURSIVE SeqFilterOut(_, _)
\* list.remove(x) for every x of `ids`: s without the events whose id is in ids
SeqFilterOut(s, ids) ==
    IF s = <<>> THEN <<>>
    ELSE IF Head(s).id \in ids THEN SeqFilterOut(Tail(s), ids)
         ELSE <<Head(s)>> \o SeqFilterOut(Tail(s), ids)

RECURSIVE SeqFilterIn(_, _)
SeqFilterIn(s, ids) ==
    IF s = <<>> THEN <<>>
    ELSE IF Head(s).id \in ids THEN <<Head(s)>> \o SeqFilterIn(Tail(s), ids)
         ELSE SeqFilterIn(Tail(s), ids)

\* Event(type=..., agent_id=..., priority=..., scheduled_for=...)
Event(id, type, agent, prio, sched) ==
    [id |-> id, type |-> type, agent_id |-> agent, priority |-> prio,
     scheduled_for |-> sched]

NextId == Len(handed) + 1

\* ------------------------------------------------------------------ EventEngine
\* event_queue.append(event)
Enqueue(q, e) == Append(q, e)

\* event_queue.pop(0): the event taken, and the queue left
PopIndex_Last(q) == Len(q)
PopIndex(q) == 1
Popped(q) == q[PopIndex(q)]
AfterPop(q) == [i \in 1..(Len(q) - 1) |-> IF i < PopIndex(q) THEN q[i] ELSE q[i + 1]]

\* e.scheduled_for and e.scheduled_for <= now
IsReady_AnyTime(e, t) == e.scheduled_for # NoTime
IsReady(e, t) == e.scheduled_for # NoTime /\ e.scheduled_for <= t

\* event_history.append(event), cut to the last HistoryKeep beyond HistoryMax
Record_Unbounded(h, e) == Append(h, e)
Record(h, e) ==
    LET h1 == Append(h, e)
    IN IF Len(h1) > HistoryMax
       THEN SubSeq(h1, Len(h1) - HistoryKeep + 1, Len(h1))
       ELSE h1

\* self.event_listeners.get(event.type, [])
ListenersOf(e) == event_listeners[e.type]

EngineInit ==
    /\ now = 0
    /\ event_queue = <<>>
    /\ scheduled_events = <<>>
    /\ event_listeners = [t \in EventTypes |-> <<>>]
    /\ is_processing = FALSE
    /\ event_history = <<>>
    /\ procTasks = <<>>
    /\ schedTasks = <<>>
    /\ handed = <<>>
    /\ invoked = <<>>
    /\ raised = {}
    /\ stopped = FALSE
    /\ upSince = NoTime

\* AgentManager.__init__ with the options it is given
ManagerInit(llm, tw, mem) ==
    /\ agents = [a \in AgentIds |-> Unloaded]
    /\ last_post_time = [a \in AgentIds |-> NoTime]
    /\ next_post_times = [a \in AgentIds |-> NoTime]
    /\ api_error_counts = [a \in AgentIds |-> 0]
    /\ api_cooldowns = [a \in AgentIds |-> NoCooldown]
    /\ processed_tweet_ids = {}
    /\ llm_provider = llm
    /\ twitter_client = tw
    /\ memory_store = mem
    /\ frames = <<>>
    /\ llmCalls = [k \in TweetIds \cup AgentIds |-> 0]
    /\ postCalls = [k \in TweetIds \cup AgentIds |-> 0]
    /\ memCalls = [k \in TweetIds \cup AgentIds |-> 0]
    /\ op = [name |-> "none", agent |-> NoAgent, outcome |-> "none"]
    /\ is_streaming = FALSE
    /\ streaming_tasks = [a \in AgentIds |-> NoTask]
    /\ pollTasks = <<>>
    /\ listenerCalls = <<>>

\* PuppetEngine.__init__
AppInit ==
    /\ is_running = FALSE
    /\ periodic_tasks = {}
    /\ genTasks = <<>>
    /\ main = "init"

\* marionette's EventRouter: the event types and agent ids it is used with, the
\* handlers registered on it, and an event whose payload has no 'agent_id'
RouterTypes == {"test.event", "agent.created"}
RouterAgents == {1, 2}
NoPayloadAgent == 0
GlobalHandlers == {"g1", "g2"}
AgentHandlers == {"h1"}
NoRouterEvent == [id |-> 0, type |-> "none", agent_id |-> NoPayloadAgent]

\* EventRouter.__init__; start() has not been called
RouterInit ==
    /\ handlers = [t \in RouterTypes |-> <<>>]
    /\ agent_handlers = [a \in RouterAgents |-> [t \in RouterTypes |-> <<>>]]
    /\ router_queue = <<>>
    /\ processing_task = [pc |-> "none", event |-> NoRouterEvent, running |-> {}]
    /\ called = <<>>
    /\ taken = <<>>

\* the engine alone: no manager is wired to it
Init == EngineInit /\ ManagerInit(FALSE, FALSE, FALSE) /\ AppInit /\ RouterInit

\* EventEngine.queue_event
queue_event(e) ==
    /\ event_queue' = Enqueue(event_queue, e)
    /\ handed' = Append(handed, [via |-> "queue", ev |-> e, started |-> Len(procTasks) > 0])
    /\ UNCHANGED <<mgrVars, streamVars, appVars, listenerCalls, routerVars>>
    /\ UNCHANGED <<now, scheduled_events, event_listeners, is_processing,
                   event_history, procTasks, schedTasks, invoked, raised, stopped, upSince>>

\* scheduled_events.append(event)
ScheduleEffect(e) ==
    /\ scheduled_events' = Append(scheduled_events, e)
    /\ handed' = Append(handed, [via |-> "schedule", ev |-> e, started |-> Len(procTasks) > 0])

\* EventEngine.schedule_event
schedule_event(e) ==
    /\ ScheduleEffect(e)
    /\ UNCHANGED <<mgrVars, streamVars, appVars, listenerCalls, routerVars>>
    /\ UNCHANGED <<now, event_queue, event_listeners, is_processing,
                   event_history, procTasks, schedTasks, invoked, raised, stopped, upSince>>

RECURSIVE SumLen(_, _)
SumLen(f, S) == IF S = {} THEN 0
                ELSE LET x == CHOOSE y \in S : TRUE IN Len(f[x]) + SumLen(f, S \ {x})
NumListeners == SumLen(event_listeners, EventTypes)

\* EventEngine.add_event_listener
add_event_listener(type, l) ==
    /\ NumListeners < MaxListeners
    /\ event_listeners' = [event_listeners EXCEPT ![type] = Append(@, l)]
    /\ UNCHANGED <<mgrVars, streamVars, appVars, listenerCalls, routerVars>>
    /\ UNCHANGED <<now, event_queue, scheduled_events, is_processing, event_history,
                   procTasks, schedTasks, historyVars>>

\* EventEngine.start: two tasks are created; each first runs after start returns
StartEffect ==
    /\ is_processing' = TRUE
    /\ procTasks' = Append(procTasks, [pc |-> "loop", event |-> NoEvent, idx |-> 0])
    /\ schedTasks' = Append(schedTasks, [pc |-> "loop", wake |-> now])
    /\ upSince' = IF is_processing THEN upSince ELSE now

start ==
    /\ StartEffect
    /\ UNCHANGED <<mgrVars, streamVars, appVars, listenerCalls, routerVars>>
    /\ UNCHANGED <<now, event_queue, scheduled_events, event_listeners,
                   event_history, handed, invoked, raised, stopped>>

\* a stop() that leaves the flag set
stop_KeepsRunning ==
    /\ is_processing
    /\ stopped' = TRUE
    /\ upSince' = NoTime
    /\ UNCHANGED <<mgrVars, streamVars, appVars, listenerCalls, routerVars>>
    /\ UNCHANGED <<now, event_queue, scheduled_events, event_listeners, is_processing,
                   event_history, procTasks, schedTasks, handed, invoked, raised>>

\* EventEngine.stop: synchronous in effect; it clears the flag, cancels no task
\* and awaits nothing
StopEffect ==
    /\ is_processing' = FALSE
    /\ stopped' = TRUE
    /\ upSince' = NoTime

stop ==
    /\ is_processing
    /\ StopEffect
    /\ UNCHANGED <<mgrVars, streamVars, appVars, listenerCalls, routerVars>>
    /\ UNCHANGED <<now, event_queue, scheduled_events, event_listeners,
                   event_history, procTasks, schedTasks, handed, invoked, raised>>

\* _process_events, one pass of the while loop up to its first await: leave,
\* take the next event, or asyncio.sleep(0.1) and come back to the test
ProcessLoop(i) ==
    /\ procTasks[i].pc = "loop"
    /\ IF ~is_processing
       THEN /\ procTasks' = [procTasks EXCEPT ![i].pc = "done"]
            /\ UNCHANGED event_queue
       ELSE IF event_queue # <<>>
       THEN /\ procTasks' = [procTasks EXCEPT ![i] =
                                [pc |-> "dispatch", event |-> Popped(event_queue), idx |-> 1]]
            /\ event_queue' = AfterPop(event_queue)
       ELSE UNCHANGED <<procTasks, event_queue>>
    /\ UNCHANGED <<mgrVars, streamVars, appVars, listenerCalls, routerVars>>
    /\ UNCHANGED <<now, scheduled_events, event_listeners, is_processing,
                   event_history, schedTasks, historyVars>>

\* What a listener's failure does to the _process_events task that called it:
\* _dispatch_event and _process_events catch nothing, so the task ends.
AfterRaise(task) == [task EXCEPT !.pc = "failed"]

AfterReturn(task) == [task EXCEPT !.pc = "dispatch", !.idx = @ + 1]

\* history: the event a listener raised for, and the listeners subscribed then
Raise(task) == [ev |-> task.event.id, subscribed |-> Len(ListenersOf(task.event))]

\* _dispatch_event: the for loop is at listener idx of the event's type.
\* Past the last listener the event is recorded and the while loop continues.
DispatchStep(i, fails) ==
    LET task == procTasks[i]
        ls == ListenersOf(task.event)
    IN
    /\ task.pc = "dispatch"
    /\ IF task.idx > Len(ls)
       THEN /\ fails = FALSE
            /\ event_history' = Record(event_history, task.event)
            /\ procTasks' = [procTasks EXCEPT ![i] =
                                [pc |-> "loop", event |-> NoEvent, idx |-> 0]]
            /\ UNCHANGED <<invoked, raised>>
       ELSE /\ invoked' = Append(invoked, [ev |-> task.event.id, idx |-> task.idx,
                                           early |-> task.event.scheduled_for > now])
            /\ UNCHANGED event_history
            /\ IF ls[task.idx] \in AsyncListeners
               THEN \* await listener(event): the listener may suspend
                    /\ fails = FALSE
                    /\ procTasks' = [procTasks EXCEPT ![i].pc = "await"]
                    /\ UNCHANGED raised
               ELSE \* listener(event) returns or raises at once
                    /\ procTasks' = [procTasks EXCEPT ![i] =
                                        IF fails THEN AfterRaise(task) ELSE AfterReturn(task)]
                    /\ raised' = IF fails THEN raised \cup {Raise(task)} ELSE raised
    /\ UNCHANGED <<mgrVars, streamVars, appVars, listenerCalls, routerVars>>
    /\ UNCHANGED <<now, event_queue, scheduled_events, event_listeners, is_processing,
                   schedTasks, handed, stopped, upSince>>

\* an awaited asynchronous listener returns or raises
ListenerDone(i, fails) ==
    LET task == procTasks[i] IN
    /\ task.pc = "await"
    /\ procTasks' = [procTasks EXCEPT ![i] =
                        IF fails THEN AfterRaise(task) ELSE AfterReturn(task)]
    /\ raised' = IF fails THEN raised \cup {Raise(task)} ELSE raised
    /\ UNCHANGED <<mgrVars, streamVars, appVars, listenerCalls, routerVars>>
    /\ UNCHANGED <<now, event_queue, scheduled_events, event_listeners, is_processing,
                   event_history, schedTasks, handed, invoked, stopped, upSince>>

\* _check_scheduled_events: one pass of the while loop, up to asyncio.sleep(1)
ReadyIds(t) == {e.id : e \in {x \in Range(scheduled_events) : IsReady(x, t)}}

CheckScheduled(j) ==
    /\ schedTasks[j].pc = "loop"
    /\ schedTasks[j].wake <= now
    /\ IF ~is_processing
       THEN /\ schedTasks' = [schedTasks EXCEPT ![j].pc = "done"]
            /\ UNCHANGED <<event_queue, scheduled_events>>
       ELSE /\ event_queue' = event_queue \o SeqFilterIn(scheduled_events, ReadyIds(now))
            /\ scheduled_events' = SeqFilterOut(scheduled_events, ReadyIds(now))
            /\ schedTasks' = [schedTasks EXCEPT ![j].wake = now + PollTicks]
    /\ UNCHANGED <<mgrVars, streamVars, appVars, listenerCalls, routerVars>>
    /\ UNCHANGED <<now, event_listeners, is_processing, event_history, procTasks,
                   historyVars>>

\* A timer that is due fires before the clock moves on.
TimerDue == \E j \in 1..Len(schedTasks) :
                schedTasks[j].pc = "loop" /\ schedTasks[j].wake <= now

\* The clock runs one poll interval past the last scheduled time, so that the
\* scan that promotes the last event is in every run.
Tick ==
    /\ now < MaxTime + PollTicks
    /\ ~TimerDue
    /\ now' = now + 1
    /\ UNCHANGED <<engineVars, historyVars, mgrVars, streamVars, appVars, listenerCalls, routerVars>>

\* The events a caller builds
NewEvents(types, prios, scheds) ==
    {Event(NextId, ty, NoAgent, p, sc) : ty \in types, p \in prios, sc \in scheds}

EngineTypes == {"mood_event"}

EngineSteps ==
    \/ Len(procTasks) < MaxStarts /\ start
    \/ stop
    \/ \E i \in 1..Len(procTasks) : ProcessLoop(i)
    \/ \E i \in 1..Len(procTasks), fails \in BOOLEAN : DispatchStep(i, fails)
    \/ \E i \in 1..Len(procTasks), fails \in BOOLEAN : ListenerDone(i, fails)
    \/ \E j \in 1..Len(schedTasks) : CheckScheduled(j)

\* Dispatch order: events of every priority, queued or scheduled as already due;
\* the clock stands still.
NextDispatch ==
    \/ \E e \in NewEvents(EngineTypes, Priorities, {NoTime}) :
          NextId <= MaxEvents /\ queue_event(e)
    \/ \E e \in NewEvents(EngineTypes, {NORMAL}, {now}) :
          NextId <= MaxEvents /\ schedule_event(e)
    \/ \E type \in EngineTypes, l \in Listeners : add_event_listener(type, l)
    \/ EngineSteps

SpecDispatch == Init /\ [][NextDispatch]_vars

\* Timing: events of the default priority under a running clock: queued with
\* no time, a due time or a later time, or scheduled for a due or a later time
\* (as schedule_next_post does); one listener, registered before anything else.
SchedChoices == {NoTime} \cup {t \in Times : t >= now /\ t <= now + PollTicks}

Next ==
    \/ \E e \in NewEvents(EngineTypes, {NORMAL}, SchedChoices) :
          NextId <= MaxEvents /\ queue_event(e)
    \/ \E e \in NewEvents(EngineTypes, {NORMAL}, SchedChoices \ {NoTime}) :
          NextId <= MaxEvents /\ schedule_event(e)
    \/ \E type \in EngineTypes, l \in Listeners :
          /\ handed = <<>> /\ procTasks = <<>> /\ now = 0
          /\ event_listeners[type] = <<>>
          /\ add_event_listener(type, l)
    \/ EngineSteps
    \/ Tick

Spec == Init /\ [][Next]_vars

\* History: a long run of one _process_events task with no listener; each event
\* is queued once the one before it has been taken.
NextHistory ==
    \/ Len(procTasks) < MaxStarts /\ start
    \/ \E e \in NewEvents(EngineTypes, {NORMAL}, {NoTime}) :
          NextId <= MaxRecorded /\ event_queue = <<>> /\ queue_event(e)
    \/ \E i \in 1..Len(procTasks) : ProcessLoop(i)
    \/ \E i \in 1..Len(procTasks) : DispatchStep(i, FALSE)

SpecHistory == Init /\ [][NextHistory]_vars

\* ------------------------------------------------------------------ AgentManager
\* everything of the engine but the pending set
engineRest == <<event_queue, event_listeners, is_processing, event_history, procTasks,
                schedTasks, invoked, raised, stopped, upSince>>

Min(x, y) == IF x <= y THEN x ELSE y
Max(x, y) == IF x >= y THEN x ELSE y

RECURSIVE Pow2(_)
Pow2(n) == IF n = 0 THEN 1 ELSE 2 * Pow2(n - 1)

\* behavior.get('min_hours_between_posts', 3), behavior.get('max_hours_between_posts', 12)
MinHours(ag) == IF ag.behavior = NoBehavior THEN DefaultMinHours ELSE ag.behavior.min
MaxHours(ag) == IF ag.behavior = NoBehavior THEN DefaultMaxHours ELSE ag.behavior.max

\* timedelta(hours=h)
Hours(h) == h * TicksPerHour

\* agent_id in self.last_post_time and now - last_post < min_delay
InCooldown_Never(ag, lpt) == FALSE
InCooldown(ag, lpt) == lpt # NoTime /\ now - lpt < Hours(MinHours(ag))

\* not (not agent or not agent.is_active)
IsActive_Loaded(ag) == ag.loaded
IsActive(ag) == ag.loaded /\ ag.is_active

\* schedule_agent_posts goes on to schedule_next_post
WillSchedule(ag, lpt) == IsActive(ag) /\ ~InCooldown(ag, lpt)

\* timedelta(seconds=int(random.uniform(min_hours, max_hours) * 3600)):
\* uniform(a, b) lies between a and b, whichever of the two is the smaller
DelayChoices(ag) == Min(Hours(MinHours(ag)), Hours(MaxHours(ag))) ..
                    Max(Hours(MinHours(ag)), Hours(MaxHours(ag)))

\* how a call of schedule_agent_posts ends
Outcome(ag, lpt) ==
    IF ~IsActive(ag) THEN "inactive"
    ELSE IF InCooldown(ag, lpt) THEN "cooldown" ELSE "scheduled"

\* the draws of random.uniform that are tried: the ends of the range
Drawn(S) == {d \in S : (\A x \in S : d <= x) \/ (\A x \in S : d >= x)}

\* schedule_next_post
ScheduleNextPost(a, delay) ==
    /\ NextId <= MaxEvents
    /\ next_post_times' = [next_post_times EXCEPT ![a] = now + delay]
    /\ ScheduleEffect(Event(NextId, "agent_post", a, NORMAL, now + delay))

\* schedule_agent_posts, for the agent record and the last post time it finds
ScheduleAgentPosts(a, ag, lpt) ==
    IF WillSchedule(ag, lpt)
    THEN \E delay \in Drawn(DelayChoices(ag)) : ScheduleNextPost(a, delay)
    ELSE UNCHANGED <<next_post_times, scheduled_events, handed>>

\* AgentManager.schedule_agent_posts, called from outside
schedule_agent_posts(a) ==
    /\ ScheduleAgentPosts(a, agents[a], last_post_time[a])
    /\ op' = [name |-> "schedule_agent_posts", agent |-> a,
              outcome |-> Outcome(agents[a], last_post_time[a])]
    /\ UNCHANGED <<now, engineRest, agents, last_post_time, api_error_counts,
                   api_cooldowns, processed_tweet_ids, llm_provider, twitter_client,
                   memory_store, frames, llmCalls, postCalls, memCalls>>
    /\ UNCHANGED <<streamVars, appVars, listenerCalls, routerVars>>

\* load_agent, `if not config.get('id'): raise ValueError(...)`: the first
\* statement of the try, re-raised by the except; nothing was written before it
LoadRejected_Scheduled ==
    /\ NextId <= MaxEvents
    /\ ScheduleEffect(Event(NextId, "agent_post", NoAgent, NORMAL, now))
    /\ UNCHANGED <<agents, next_post_times>>
LoadRejected == UNCHANGED <<agents, next_post_times, scheduled_events, handed>>

\* AgentManager.load_agent; a is NoAgent for a config that has no id. The
\* agent gets the default provider when there is one.
load_agent(a, active, behavior) ==
    /\ IF a = NoAgent
       THEN /\ LoadRejected
            /\ op' = [name |-> "load_agent", agent |-> a, outcome |-> "raised"]
       ELSE /\ ~agents[a].loaded
            /\ LET ag == [loaded |-> TRUE, is_active |-> active, behavior |-> behavior,
                          last_post_time |-> NoTime, current_mood |-> NoMood,
                          provider |-> llm_provider]
               IN /\ agents' = [agents EXCEPT ![a] = ag]
                  /\ ScheduleAgentPosts(a, ag, last_post_time[a])
                  /\ op' = [name |-> "load_agent", agent |-> a,
                            outcome |-> Outcome(ag, last_post_time[a])]
    /\ UNCHANGED <<now, engineRest, last_post_time, api_error_counts,
                   api_cooldowns, processed_tweet_ids, llm_provider, twitter_client,
                   memory_store, frames, llmCalls, postCalls, memCalls>>
    /\ UNCHANGED <<streamVars, appVars, listenerCalls, routerVars>>

\* cooldown_minutes = min(2 ** self.api_error_counts[agent_id], 60)
BackoffMinutes_Uncapped(count) == Pow2(count)
BackoffMinutes_Shrinking(count) == BackoffCap - Min(Pow2(count), BackoffCap)
BackoffMinutes(count) == Min(Pow2(count), BackoffCap)

\* _handle_api_error: cooldown_end = utcnow() + timedelta(minutes=cooldown_minutes)
ApiError_Lowering(a) ==
    /\ api_error_counts' = [api_error_counts EXCEPT ![a] = @ - 1]
    /\ api_cooldowns' = [api_cooldowns EXCEPT ![a] = [at |-> now, minutes |-> 0]]
ApiError(a) ==
    /\ api_error_counts' = [api_error_counts EXCEPT ![a] = @ + 1]
    /\ api_cooldowns' = [api_cooldowns EXCEPT ![a] =
          [at |-> now, minutes |-> BackoffMinutes(api_error_counts[a] + 1)]]

\* AgentManager._handle_api_error, called on its own
handle_api_error(a) ==
    /\ api_error_counts[a] < MaxErrors
    /\ ApiError(a)
    /\ op' = [name |-> "_handle_api_error", agent |-> a, outcome |-> "none"]
    /\ UNCHANGED <<now, engineVars, historyVars, agents, last_post_time, next_post_times,
                   processed_tweet_ids, llm_provider, twitter_client, memory_store,
                   frames, llmCalls, postCalls, memCalls>>
    /\ UNCHANGED <<streamVars, appVars, listenerCalls, routerVars>>

\* a clock reading and the end of a cooldown on one scale, 1/TicksPerHour minutes
Instant(t) == t * MinutesPerHour
CooldownEnd(c) == Instant(c.at) + c.minutes * TicksPerHour

\* a call of a coroutine of the manager: where it is suspended, and how it went
Frame(name, a, k, passed, pc) ==
    [op |-> name, pc |-> pc, agent |-> a, tweet |-> k, passed |-> passed, failed |-> "no",
     active |-> IsActive(agents[a]),
     posted |-> NoTime, rescheduled |-> FALSE,
     seq |-> \A i \in 1..Len(frames) : frames[i].pc = "done"]

Finish(i, failed) == [frames EXCEPT ![i].pc = "done", ![i].failed = failed]
Goto(i, pc) == [frames EXCEPT ![i].pc = pc]

\* history: post_tweet returned at `now`; schedule_agent_posts was called at the end
Posted(fs, i) == [fs EXCEPT ![i].posted = now]
Rescheduled(fs, i) == [fs EXCEPT ![i].rescheduled = TRUE]
Count(calls, k) == [calls EXCEPT ![k] = @ + 1]

\* tweet_id in self.processed_tweet_ids
Seen_Never(ids, k) == FALSE
Seen(ids, k) == k \in ids

\* self.processed_tweet_ids.add(tweet_id)
MarkSeen_Forgotten(ids, k) == ids
MarkSeen(ids, k) == ids \cup {k}

\* AgentManager.process_agent_reaction up to `await llm_provider.generate_tweet`;
\* _fetch_conversation_thread returns without suspending
process_agent_reaction(a, k) ==
    /\ Len(frames) < MaxCalls
    /\ LET ag == agents[a]
           passes == IsActive(ag) /\ k # NoTweet
                     /\ ~Seen(processed_tweet_ids, k)
           calls == passes /\ llm_provider
       IN /\ processed_tweet_ids' =
                IF passes THEN MarkSeen(processed_tweet_ids, k) ELSE processed_tweet_ids
          /\ llmCalls' = IF calls THEN Count(llmCalls, k) ELSE llmCalls
          /\ frames' = Append(frames,
                          Frame("react", a, k, passes, IF calls THEN "llm" ELSE "done"))
    /\ op' = [name |-> "process_agent_reaction", agent |-> a, outcome |-> "none"]
    /\ UNCHANGED <<now, engineVars, historyVars, agents, last_post_time, next_post_times,
                   api_error_counts, api_cooldowns, llm_provider, twitter_client,
                   memory_store, postCalls, memCalls>>
    /\ UNCHANGED <<streamVars, appVars, listenerCalls, routerVars>>

\* process_agent_reaction: generate_tweet returns or raises
ReactionGenerated(i, ok) ==
    /\ frames[i].op = "react" /\ frames[i].pc = "llm"
    /\ IF ok /\ twitter_client
       THEN /\ postCalls' = Count(postCalls, frames[i].tweet)
            /\ frames' = Goto(i, "post")
       ELSE /\ frames' = Finish(i, IF ok THEN "no" ELSE "llm")
            /\ UNCHANGED postCalls
    /\ UNCHANGED <<now, engineVars, historyVars, agents, last_post_time, next_post_times,
                   api_error_counts, api_cooldowns, processed_tweet_ids, llm_provider,
                   twitter_client, memory_store, llmCalls, memCalls, op>>
    /\ UNCHANGED <<streamVars, appVars, listenerCalls, routerVars>>

\* process_agent_reaction: post_tweet(reply_to=tweet_id) returns or raises
ReactionPosted(i, ok) ==
    /\ frames[i].op = "react" /\ frames[i].pc = "post"
    /\ IF ok /\ memory_store
       THEN /\ memCalls' = Count(memCalls, frames[i].tweet)
            /\ frames' = Goto(i, "mem")
       ELSE /\ frames' = Finish(i, IF ok THEN "no" ELSE "post")
            /\ UNCHANGED memCalls
    /\ UNCHANGED <<now, engineVars, historyVars, agents, last_post_time, next_post_times,
                   api_error_counts, api_cooldowns, processed_tweet_ids, llm_provider,
                   twitter_client, memory_store, llmCalls, postCalls, op>>
    /\ UNCHANGED <<streamVars, appVars, listenerCalls, routerVars>>

\* process_agent_reaction: store_memory returns or raises
ReactionStored(i, ok) ==
    /\ frames[i].op = "react" /\ frames[i].pc = "mem"
    /\ frames' = Finish(i, IF ok THEN "no" ELSE "mem")
    /\ UNCHANGED <<now, engineVars, historyVars, agents, last_post_time, next_post_times,
                   api_error_counts, api_cooldowns, processed_tweet_ids, llm_provider,
                   twitter_client, memory_store, llmCalls, postCalls, memCalls, op>>
    /\ UNCHANGED <<streamVars, appVars, listenerCalls, routerVars>>

\* AgentManager.create_agent_post up to `await llm_provider.generate_tweet`; the
\* engine awaits _handle_agent_post, so one call ends before the next begins
CreateAgentPost(a) ==
    /\ Len(frames) < MaxCalls
    /\ \A i \in 1..Len(frames) : frames[i].pc = "done"
    /\ LET calls == IsActive(agents[a]) /\ llm_provider
       IN /\ llmCalls' = IF calls THEN Count(llmCalls, a) ELSE llmCalls
          /\ frames' = Append(frames,
                          Frame("post", a, NoTweet, FALSE, IF calls THEN "llm" ELSE "done"))
    /\ op' = [name |-> "create_agent_post", agent |-> a, outcome |-> "none"]
    /\ UNCHANGED <<now, agents, last_post_time, next_post_times,
                   api_error_counts, api_cooldowns, processed_tweet_ids, llm_provider,
                   twitter_client, memory_store, postCalls, memCalls>>
    /\ UNCHANGED <<streamVars, appVars, routerVars>>

\* AgentManager.create_agent_post, called from outside
create_agent_post(a) ==
    /\ CreateAgentPost(a)
    /\ UNCHANGED <<engineVars, historyVars, listenerCalls>>

\* _handle_agent_post_event for a due agent_post event: the running engine has
\* promoted the event, popped it and awaits the manager's listener (the steps
\* CheckScheduled, ProcessLoop and DispatchStep taken as one)
handle_agent_post_event(k) ==
    /\ scheduled_events[k].type = "agent_post"
    /\ scheduled_events[k].agent_id # NoAgent
    /\ IsReady(scheduled_events[k], now)
    /\ scheduled_events' = SeqFilterOut(scheduled_events, {scheduled_events[k].id})
    /\ CreateAgentPost(scheduled_events[k].agent_id)
    /\ UNCHANGED <<engineRest, handed, listenerCalls>>

\* create_agent_post: generate_tweet returns, or raises into the outer except
PostGenerated(i, ok) ==
    /\ frames[i].op = "post" /\ frames[i].pc = "llm"
    /\ IF ok /\ twitter_client
       THEN /\ postCalls' = Count(postCalls, frames[i].agent)
            /\ frames' = Goto(i, "post")
       ELSE /\ frames' = Finish(i, IF ok THEN "no" ELSE "llm")
            /\ UNCHANGED postCalls
    /\ UNCHANGED <<now, engineVars, historyVars, agents, last_post_time, next_post_times,
                   api_error_counts, api_cooldowns, processed_tweet_ids, llm_provider,
                   twitter_client, memory_store, llmCalls, memCalls, op>>
    /\ UNCHANGED <<streamVars, appVars, listenerCalls, routerVars>>

\* create_agent_post: post_tweet returns, or raises into _handle_api_error
PostPosted(i, ok) ==
    LET a == frames[i].agent IN
    /\ frames[i].op = "post" /\ frames[i].pc = "post"
    /\ IF ~ok
       THEN /\ ApiError(a)
            /\ frames' = Finish(i, "post")
            /\ UNCHANGED <<agents, last_post_time, memCalls, next_post_times,
                           scheduled_events, handed>>
       ELSE /\ agents' = [agents EXCEPT ![a].last_post_time = now]
            /\ last_post_time' = [last_post_time EXCEPT ![a] = now]
            /\ UNCHANGED <<api_error_counts, api_cooldowns>>
            /\ IF memory_store
               THEN /\ memCalls' = Count(memCalls, a)
                    /\ frames' = Posted(Goto(i, "mem"), i)
                    /\ UNCHANGED <<next_post_times, scheduled_events, handed>>
               ELSE /\ ScheduleAgentPosts(a, agents'[a], now)
                    /\ frames' = Rescheduled(Posted(Finish(i, "no"), i), i)
                    /\ UNCHANGED memCalls
    /\ UNCHANGED <<now, engineRest, processed_tweet_ids, llm_provider, twitter_client,
                   memory_store, llmCalls, postCalls, op>>
    /\ UNCHANGED <<streamVars, appVars, listenerCalls, routerVars>>

\* create_agent_post: store_memory returns, or raises into _handle_api_error
PostStored(i, ok) ==
    LET a == frames[i].agent IN
    /\ frames[i].op = "post" /\ frames[i].pc = "mem"
    /\ IF ~ok
       THEN /\ ApiError(a)
            /\ frames' = Finish(i, "mem")
            /\ UNCHANGED <<next_post_times, scheduled_events, handed>>
       ELSE /\ ScheduleAgentPosts(a, agents[a], last_post_time[a])
            /\ frames' = Rescheduled(Finish(i, "no"), i)
            /\ UNCHANGED <<api_error_counts, api_cooldowns>>
    /\ UNCHANGED <<now, engineRest, agents, last_post_time, processed_tweet_ids,
                   llm_provider, twitter_client, memory_store, llmCalls, postCalls,
                   memCalls, op>>
    /\ UNCHANGED <<streamVars, appVars, listenerCalls, routerVars>>

\* the event types process_agent_event is handed by the manager's listeners
EventOps == {"news_event", "mood_event", "interaction_event"}

MoodKeys == {"excitement", "concern"}
MoodValues == (MoodLow - MoodExcess) .. (MoodHigh + MoodExcess)
MoodDicts == UNION {[K -> MoodValues] : K \in SUBSET MoodKeys}

\* event.data: 'content' present or not, and a 'mood' dict
EventData(type) ==
    IF type = "news_event" THEN {[content |-> c, mood |-> NoMood] : c \in BOOLEAN}
    ELSE IF type = "mood_event" THEN {[content |-> FALSE, mood |-> m] : m \in MoodDicts}
    ELSE {[content |-> FALSE, mood |-> NoMood]}

\* dict.update
DictUpdate(m, d) ==
    [k \in DOMAIN m \cup DOMAIN d |-> IF k \in DOMAIN d THEN d[k] ELSE m[k]]

\* process_agent_event: "Store event in memory", or return
StoreEvent(i) ==
    IF memory_store
    THEN /\ memCalls' = Count(memCalls, frames[i].agent)
         /\ frames' = Goto(i, "mem")
    ELSE /\ frames' = Finish(i, "no")
         /\ UNCHANGED memCalls

\* AgentManager.process_agent_event up to its first await
process_agent_event(a, type, data) ==
    /\ Len(frames) < MaxCalls
    /\ LET active == IsActive(agents[a])
           asks == active /\ type = "news_event" /\ data.content /\ llm_provider
           stores == active /\ ~asks /\ memory_store
       IN /\ agents' = IF active /\ type = "mood_event"
                       THEN [agents EXCEPT ![a].current_mood = DictUpdate(@, data.mood)]
                       ELSE agents
          /\ llmCalls' = IF asks THEN Count(llmCalls, a) ELSE llmCalls
          /\ memCalls' = IF stores THEN Count(memCalls, a) ELSE memCalls
          /\ frames' = Append(frames,
                Frame(type, a, NoTweet, FALSE,
                      IF asks THEN "llm" ELSE IF stores THEN "mem" ELSE "done"))
    /\ op' = [name |-> "process_agent_event", agent |-> a, outcome |-> "none"]
    /\ UNCHANGED <<now, engineVars, historyVars, last_post_time, next_post_times,
                   api_error_counts, api_cooldowns, processed_tweet_ids, llm_provider,
                   twitter_client, memory_store, postCalls>>
    /\ UNCHANGED <<streamVars, appVars, listenerCalls, routerVars>>

\* process_agent_event, news: generate_tweet returns or raises
EventGenerated(i, ok) ==
    /\ frames[i].op \in EventOps /\ frames[i].pc = "llm"
    /\ IF ~ok
       THEN /\ frames' = Finish(i, "llm")
            /\ UNCHANGED <<postCalls, memCalls>>
       ELSE IF twitter_client
       THEN /\ postCalls' = Count(postCalls, frames[i].agent)
            /\ frames' = Goto(i, "post")
            /\ UNCHANGED memCalls
       ELSE /\ StoreEvent(i)
            /\ UNCHANGED postCalls
    /\ UNCHANGED <<now, engineVars, historyVars, agents, last_post_time, next_post_times,
                   api_error_counts, api_cooldowns, processed_tweet_ids, llm_provider,
                   twitter_client, memory_store, llmCalls, op>>
    /\ UNCHANGED <<streamVars, appVars, listenerCalls, routerVars>>

\* process_agent_event, news: post_tweet returns or raises
EventPosted(i, ok) ==
    /\ frames[i].op \in EventOps /\ frames[i].pc = "post"
    /\ IF ok
       THEN StoreEvent(i)
       ELSE /\ frames' = Finish(i, "post")
            /\ UNCHANGED memCalls
    /\ UNCHANGED <<now, engineVars, historyVars, agents, last_post_time, next_post_times,
                   api_error_counts, api_cooldowns, processed_tweet_ids, llm_provider,
                   twitter_client, memory_store, llmCalls, postCalls, op>>
    /\ UNCHANGED <<streamVars, appVars, listenerCalls, routerVars>>

\* process_agent_event: store_memory returns or raises
EventStored(i, ok) ==
    /\ frames[i].op \in EventOps /\ frames[i].pc = "mem"
    /\ frames' = Finish(i, IF ok THEN "no" ELSE "mem")
    /\ UNCHANGED <<now, engineVars, historyVars, agents, last_post_time, next_post_times,
                   api_error_counts, api_cooldowns, processed_tweet_ids, llm_provider,
                   twitter_client, memory_store, llmCalls, postCalls, memCalls, op>>
    /\ UNCHANGED <<streamVars, appVars, listenerCalls, routerVars>>

\* ------------------------------------------------------------------ streaming
\* a _stream_mentions_for_agent task: where it is suspended, whether cancel()
\* was called on it, the mentions its for loop has still to handle, and history:
\* its polls, the last failure it met, its last sleep
PollTask(a) ==
    [agent |-> a, pc |-> "new", cancel |-> FALSE, mentions |-> <<>>, tweet |-> NoTweet,
     fetches |-> 0, error |-> "no", interval |-> 0]

Finished(task) == task.pc \in {"done", "cancelled"}

\* task.cancel(): CancelledError is raised in the task the next time it runs
CancelDelivered_Never(task) == FALSE
CancelDelivered(task) == task.cancel

\* `except asyncio.CancelledError: break`, or the error leaving the coroutine
Cancelled(task) == [task EXCEPT !.pc = "cancelled"]

\* `while self.is_streaming:` and the call of _get_agent_mentions in its body
LoopTop(task) ==
    IF is_streaming THEN [task EXCEPT !.pc = "fetch", !.fetches = @ + 1]
    ELSE [task EXCEPT !.pc = "done"]

\* `except Exception` of the loop: the error is printed, then asyncio.sleep(60)
FetchFailed_Ends(task) == [task EXCEPT !.pc = "done", !.error = "fetch"]
FetchFailed(task) ==
    [task EXCEPT !.pc = "retry", !.interval = RetryInterval, !.error = "fetch"]

\* `except Exception` of process_agent_reaction: the error is printed
ReactionFailed(task, what) == [task EXCEPT !.error = what]

RECURSIVE ForMentions(_, _)
\* `for mention in mentions: await self.process_agent_reaction(agent_id, mention)`
\* from the mentions left, up to the first call that suspends in generate_tweet;
\* past the last mention, asyncio.sleep(60)
ForMentions(task, seen) ==
    IF task.mentions = <<>>
    THEN [task |-> [task EXCEPT !.pc = "sleep", !.interval = StreamInterval,
                                !.tweet = NoTweet],
          seen |-> seen]
    ELSE LET k == Head(task.mentions)
             passes == IsActive(agents[task.agent]) /\ k # NoTweet /\ ~Seen(seen, k)
             seen1 == IF passes THEN MarkSeen(seen, k) ELSE seen
             next == [task EXCEPT !.mentions = Tail(@), !.tweet = k]
         IN IF passes /\ llm_provider
            THEN [task |-> [next EXCEPT !.pc = "llm"], seen |-> seen1]
            ELSE ForMentions(next, seen1)

\* the task runs on from `task` to its next await
Continue(t, task) ==
    LET r == ForMentions(task, processed_tweet_ids) IN
    /\ pollTasks' = [pollTasks EXCEPT ![t] = r.task]
    /\ processed_tweet_ids' = r.seen
    /\ llmCalls' = IF r.task.pc = "llm" THEN Count(llmCalls, r.task.tweet) ELSE llmCalls

\* the task may poll once more
MayPoll(task) == task.fetches < MaxFetches \/ ~is_streaming \/ CancelDelivered(task)

\* _stream_mentions_for_agent runs for the first time
StreamRun(t) ==
    LET task == pollTasks[t] IN
    /\ task.pc = "new"
    /\ MayPoll(task)
    /\ pollTasks' = [pollTasks EXCEPT ![t] =
                        IF CancelDelivered(task) THEN Cancelled(task) ELSE LoopTop(task)]
    /\ UNCHANGED <<now, engineVars, historyVars, agents, last_post_time, next_post_times,
                   api_error_counts, api_cooldowns, processed_tweet_ids, llm_provider,
                   twitter_client, memory_store, frames, llmCalls, postCalls, memCalls, op,
                   is_streaming, streaming_tasks, appVars, listenerCalls, routerVars>>

\* _get_agent_mentions answers with mentions, or raises
StreamFetched(t, ok, mentions) ==
    LET task == pollTasks[t] IN
    /\ task.pc = "fetch"
    /\ IF CancelDelivered(task)
       THEN /\ pollTasks' = [pollTasks EXCEPT ![t] = Cancelled(task)]
            /\ UNCHANGED <<processed_tweet_ids, llmCalls>>
       ELSE IF ~ok
       THEN /\ pollTasks' = [pollTasks EXCEPT ![t] = FetchFailed(task)]
            /\ UNCHANGED <<processed_tweet_ids, llmCalls>>
       ELSE Continue(t, [task EXCEPT !.mentions = mentions])
    /\ UNCHANGED <<now, engineVars, historyVars, agents, last_post_time, next_post_times,
                   api_error_counts, api_cooldowns, llm_provider,
                   twitter_client, memory_store, frames, postCalls, memCalls, op,
                   is_streaming, streaming_tasks, appVars, listenerCalls, routerVars>>

\* process_agent_reaction in the task: generate_tweet returns or raises
StreamGenerated(t, ok) ==
    LET task == pollTasks[t] IN
    /\ task.pc = "llm"
    /\ IF CancelDelivered(task)
       THEN /\ pollTasks' = [pollTasks EXCEPT ![t] = Cancelled(task)]
            /\ UNCHANGED <<processed_tweet_ids, llmCalls, postCalls>>
       ELSE IF ok /\ twitter_client
       THEN /\ pollTasks' = [pollTasks EXCEPT ![t].pc = "post"]
            /\ postCalls' = Count(postCalls, task.tweet)
            /\ UNCHANGED <<processed_tweet_ids, llmCalls>>
       ELSE /\ Continue(t, IF ok THEN task ELSE ReactionFailed(task, "llm"))
            /\ UNCHANGED postCalls
    /\ UNCHANGED <<now, engineVars, historyVars, agents, last_post_time, next_post_times,
                   api_error_counts, api_cooldowns, llm_provider,
                   twitter_client, memory_store, frames, memCalls, op,
                   is_streaming, streaming_tasks, appVars, listenerCalls, routerVars>>

\* process_agent_reaction in the task: post_tweet returns or raises
StreamPosted(t, ok) ==
    LET task == pollTasks[t] IN
    /\ task.pc = "post"
    /\ IF CancelDelivered(task)
       THEN /\ pollTasks' = [pollTasks EXCEPT ![t] = Cancelled(task)]
            /\ UNCHANGED <<processed_tweet_ids, llmCalls, memCalls>>
       ELSE IF ok /\ memory_store
       THEN /\ pollTasks' = [pollTasks EXCEPT ![t].pc = "mem"]
            /\ memCalls' = Count(memCalls, task.tweet)
            /\ UNCHANGED <<processed_tweet_ids, llmCalls>>
       ELSE /\ Continue(t, IF ok THEN task ELSE ReactionFailed(task, "post"))
            /\ UNCHANGED memCalls
    /\ UNCHANGED <<now, engineVars, historyVars, agents, last_post_time, next_post_times,
                   api_error_counts, api_cooldowns, llm_provider,
                   twitter_client, memory_store, frames, postCalls, op,
                   is_streaming, streaming_tasks, appVars, listenerCalls, routerVars>>

\* process_agent_reaction in the task: store_memory returns or raises
StreamStored(t, ok) ==
    LET task == pollTasks[t] IN
    /\ task.pc = "mem"
    /\ IF CancelDelivered(task)
       THEN /\ pollTasks' = [pollTasks EXCEPT ![t] = Cancelled(task)]
            /\ UNCHANGED <<processed_tweet_ids, llmCalls>>
       ELSE Continue(t, IF ok THEN task ELSE ReactionFailed(task, "mem"))
    /\ UNCHANGED <<now, engineVars, historyVars, agents, last_post_time, next_post_times,
                   api_error_counts, api_cooldowns, llm_provider,
                   twitter_client, memory_store, frames, postCalls, memCalls, op,
                   is_streaming, streaming_tasks, appVars, listenerCalls, routerVars>>

\* asyncio.sleep(60) is over, in the loop's body or in its `except Exception`
StreamWake(t) ==
    LET task == pollTasks[t] IN
    /\ task.pc \in {"sleep", "retry"}
    /\ MayPoll(task)
    /\ pollTasks' = [pollTasks EXCEPT ![t] =
                        IF CancelDelivered(task) THEN Cancelled(task) ELSE LoopTop(task)]
    /\ UNCHANGED <<now, engineVars, historyVars, agents, last_post_time, next_post_times,
                   api_error_counts, api_cooldowns, processed_tweet_ids, llm_provider,
                   twitter_client, memory_store, frames, llmCalls, postCalls, memCalls, op,
                   is_streaming, streaming_tasks, appVars, listenerCalls, routerVars>>

\* `if not self.twitter_client or self.is_streaming: return`
MayStartStreaming_Always == TRUE
MayStartStreaming == twitter_client /\ ~is_streaming

\* the agents of self.agents with is_active
ActiveAgents == {a \in AgentIds : IsActive(agents[a])}

RECURSIVE Spawn(_, _, _)
\* asyncio.create_task(self._stream_mentions_for_agent(agent_id)) for each
\* agent of S, and self.streaming_tasks[agent_id] = task
Spawn(S, tasks, map) ==
    IF S = {} THEN [tasks |-> tasks, map |-> map]
    ELSE LET a == CHOOSE x \in S : TRUE
         IN Spawn(S \ {a}, Append(tasks, PollTask(a)),
                  [map EXCEPT ![a] = Len(tasks) + 1])

StartStreaming ==
    IF MayStartStreaming
    THEN LET r == Spawn(ActiveAgents, pollTasks, streaming_tasks) IN
         /\ is_streaming' = TRUE
         /\ pollTasks' = r.tasks
         /\ streaming_tasks' = r.map
    ELSE UNCHANGED streamVars

\* AgentManager.start_streaming_mentions
start_streaming_mentions ==
    /\ MayStartStreaming => Len(pollTasks) + Cardinality(ActiveAgents) <= MaxPollTasks
    /\ StartStreaming
    /\ UNCHANGED <<now, engineVars, historyVars, agents, last_post_time, next_post_times,
                   api_error_counts, api_cooldowns, processed_tweet_ids, llm_provider,
                   twitter_client, memory_store, frames, llmCalls, postCalls, memCalls,
                   op, appVars, listenerCalls, routerVars>>

\* the tasks in self.streaming_tasks.values()
Tracked == {streaming_tasks[a] : a \in AgentIds} \ {NoTask}

StopStreaming ==
    /\ is_streaming' = FALSE
    /\ pollTasks' = [t \in 1..Len(pollTasks) |->
                        IF t \in Tracked /\ ~Finished(pollTasks[t])
                        THEN [pollTasks[t] EXCEPT !.cancel = TRUE]
                        ELSE pollTasks[t]]
    /\ streaming_tasks' = [a \in AgentIds |-> NoTask]

\* AgentManager.stop_streaming_mentions: no await in it
stop_streaming_mentions ==
    /\ StopStreaming
    /\ UNCHANGED <<now, engineVars, historyVars, agents, last_post_time, next_post_times,
                   api_error_counts, api_cooldowns, processed_tweet_ids, llm_provider,
                   twitter_client, memory_store, frames, llmCalls, postCalls, memCalls,
                   op, appVars, listenerCalls, routerVars>>

\* the answers of _get_agent_mentions
Mentions == UNION {[1..n -> TweetIds] : n \in 0..MaxMentions}

\* the clock of the posting schedule
TickHour ==
    /\ now < MaxTime
    /\ now' = now + 1
    /\ UNCHANGED <<engineVars, historyVars, mgrVars, streamVars, appVars, listenerCalls, routerVars>>

\* The manager with its collaborators present or not, and an engine to schedule on.
InitAgents == EngineInit /\ AppInit /\ RouterInit /\ \E llm \in BOOLEAN, tw \in BOOLEAN, mem \in BOOLEAN :
                                         ManagerInit(llm, tw, mem)

\* Posting: agents are loaded, asked to post and to reschedule, and the clock runs.
NextPosting ==
    \/ \E a \in AgentIds, active \in BOOLEAN, b \in Behaviors : load_agent(a, active, b)
    \/ \E a \in AgentIds : schedule_agent_posts(a)
    \/ \E a \in AgentIds : create_agent_post(a)
    \/ \E i \in 1..Len(frames), ok \in BOOLEAN : PostGenerated(i, ok)
    \/ \E i \in 1..Len(frames), ok \in BOOLEAN : PostPosted(i, ok)
    \/ \E i \in 1..Len(frames), ok \in BOOLEAN : PostStored(i, ok)
    \/ TickHour

SpecPosting == InitAgents /\ [][NextPosting]_vars

\* Schedule: agents are loaded and rescheduled, and they post only when one of
\* their agent_post events comes due and is dispatched.
NextSchedule ==
    \/ \E a \in AgentIds, active \in BOOLEAN, b \in Behaviors : load_agent(a, active, b)
    \/ \E a \in AgentIds : schedule_agent_posts(a)
    \/ \E k \in 1..Len(scheduled_events) : handle_agent_post_event(k)
    \/ \E i \in 1..Len(frames), ok \in BOOLEAN : PostGenerated(i, ok)
    \/ \E i \in 1..Len(frames), ok \in BOOLEAN : PostPosted(i, ok)
    \/ \E i \in 1..Len(frames), ok \in BOOLEAN : PostStored(i, ok)
    \/ TickHour

SpecSchedule == InitAgents /\ [][NextSchedule]_vars

\* Backoff: API errors are recorded for the agents while the clock runs.
NextBackoff ==
    \/ \E a \in AgentIds : handle_api_error(a)
    \/ TickHour

SpecBackoff == Init /\ [][NextBackoff]_vars

\* Events: agents are loaded and handed news, mood and interaction events.
NextEvents ==
    \/ \E a \in AgentIds, active \in BOOLEAN : load_agent(a, active, NoBehavior)
    \/ \E a \in AgentIds, type \in EventOps :
          \E data \in EventData(type) : process_agent_event(a, type, data)
    \/ \E i \in 1..Len(frames), ok \in BOOLEAN : EventGenerated(i, ok)
    \/ \E i \in 1..Len(frames), ok \in BOOLEAN : EventPosted(i, ok)
    \/ \E i \in 1..Len(frames), ok \in BOOLEAN : EventStored(i, ok)

SpecEvents == InitAgents /\ [][NextEvents]_vars

\* Gating: every operation of the manager that looks at an agent's active flag,
\* on agents loaded active or inactive, with every collaborator there to be called.
InitGating == EngineInit /\ ManagerInit(TRUE, TRUE, TRUE) /\ AppInit /\ RouterInit

NextGating ==
    \/ \E a \in AgentIds, active \in BOOLEAN : load_agent(a, active, NoBehavior)
    \/ \E a \in AgentIds : schedule_agent_posts(a)
    \/ \E a \in AgentIds : create_agent_post(a)
    \/ \E a \in AgentIds, k \in TweetIds : process_agent_reaction(a, k)
    \/ \E a \in AgentIds, type \in EventOps :
          \E data \in EventData(type) : process_agent_event(a, type, data)
    \/ \E i \in 1..Len(frames), ok \in BOOLEAN : PostGenerated(i, ok)
    \/ \E i \in 1..Len(frames), ok \in BOOLEAN : PostPosted(i, ok)
    \/ \E i \in 1..Len(frames), ok \in BOOLEAN : PostStored(i, ok)
    \/ \E i \in 1..Len(frames), ok \in BOOLEAN : ReactionGenerated(i, ok)
    \/ \E i \in 1..Len(frames), ok \in BOOLEAN : ReactionPosted(i, ok)
    \/ \E i \in 1..Len(frames), ok \in BOOLEAN : ReactionStored(i, ok)
    \/ \E i \in 1..Len(frames), ok \in BOOLEAN : EventGenerated(i, ok)
    \/ \E i \in 1..Len(frames), ok \in BOOLEAN : EventPosted(i, ok)
    \/ \E i \in 1..Len(frames), ok \in BOOLEAN : EventStored(i, ok)

SpecGating == InitGating /\ [][NextGating]_vars

\* Reactions: agents are loaded and asked to react to tweets, calls interleaving
\* at their awaits.
NextReactions ==
    \/ \E a \in AgentIds, active \in BOOLEAN : load_agent(a, active, NoBehavior)
    \/ \E a \in AgentIds, k \in TweetIds \cup {NoTweet} : process_agent_reaction(a, k)
    \/ \E i \in 1..Len(frames), ok \in BOOLEAN : ReactionGenerated(i, ok)
    \/ \E i \in 1..Len(frames), ok \in BOOLEAN : ReactionPosted(i, ok)
    \/ \E i \in 1..Len(frames), ok \in BOOLEAN : ReactionStored(i, ok)

SpecReactions == InitAgents /\ [][NextReactions]_vars

\* Streaming: agents are loaded, streaming is started and stopped, and the poll
\* tasks run against collaborators that answer or raise.
NextStreaming ==
    \/ \E a \in AgentIds, active \in BOOLEAN : load_agent(a, active, NoBehavior)
    \/ start_streaming_mentions
    \/ stop_streaming_mentions
    \/ \E t \in 1..Len(pollTasks) : StreamRun(t)
    \/ \E t \in 1..Len(pollTasks), m \in Mentions : StreamFetched(t, TRUE, m)
    \/ \E t \in 1..Len(pollTasks) : StreamFetched(t, FALSE, <<>>)
    \/ \E t \in 1..Len(pollTasks), ok \in BOOLEAN : StreamGenerated(t, ok)
    \/ \E t \in 1..Len(pollTasks), ok \in BOOLEAN : StreamPosted(t, ok)
    \/ \E t \in 1..Len(pollTasks), ok \in BOOLEAN : StreamStored(t, ok)
    \/ \E t \in 1..Len(pollTasks) : StreamWake(t)

\* an LLM provider and a memory store are configured, a twitter_client or not
InitStreaming == EngineInit /\ AppInit /\ RouterInit /\ \E tw \in BOOLEAN : ManagerInit(TRUE, tw, TRUE)

SpecStreaming == InitStreaming /\ [][NextStreaming]_vars

\* ------------------------------------------------------------------ PuppetEngine
\* t1, t2, t3 of _setup_periodic_events
GenKinds == <<"news_event", "mood_event", "interaction_event">>

\* a periodic generator task, with the agent_ids its closure holds
GenTask(kind, ids) == [kind |-> kind, ids |-> ids, pc |-> "new", cancel |-> FALSE, ticks |-> 0]

\* self.is_running = True, after _setup_periodic_events and before start() awaits
StartedFlag_Unset == FALSE
StartedFlag == TRUE

\* list(agent_manager.agents.keys())
LoadedAgents == {a \in AgentIds : agents[a].loaded}

\* PuppetEngine.start from event_engine.start() up to its first
\* `await asyncio.sleep(1)`: none of the calls in between suspends
PuppetStart ==
    /\ main = "init"
    /\ StartEffect
    /\ StartStreaming
    /\ IF LoadedAgents # {}
       THEN /\ genTasks' = genTasks \o [k \in 1..Len(GenKinds) |->
                                           GenTask(GenKinds[k], LoadedAgents)]
            /\ periodic_tasks' = periodic_tasks \cup
                                   ((Len(genTasks) + 1)..(Len(genTasks) + Len(GenKinds)))
       ELSE UNCHANGED <<genTasks, periodic_tasks>>
    /\ is_running' = StartedFlag
    /\ main' = "running"
    /\ UNCHANGED <<now, event_queue, scheduled_events, event_listeners, event_history,
                   handed, invoked, raised, stopped,
                   agents, last_post_time, next_post_times, api_error_counts,
                   api_cooldowns, processed_tweet_ids, llm_provider, twitter_client,
                   memory_store, frames, llmCalls, postCalls, memCalls, op>>
    /\ UNCHANGED <<listenerCalls, routerVars>>

RECURSIVE SeqOf(_)
\* the elements of S in a list
SeqOf(S) == IF S = {} THEN <<>>
            ELSE LET x == CHOOSE y \in S : TRUE IN <<x>> \o SeqOf(S \ {x})

\* the agents one tick of a generator makes events for: none (a broadcast), each
\* of agent_ids, or the first of random.sample(agent_ids, 2)
TickAgents(task, first) ==
    IF task.kind = "news_event" THEN <<NoAgent>>
    ELSE IF task.kind = "mood_event" THEN SeqOf(task.ids)
    ELSE IF Cardinality(task.ids) >= 2 THEN <<first>> ELSE <<>>

\* event_engine.queue_event(Event(type=..., agent_id=...)) for each of them
TickEvents(task, first) ==
    LET as == TickAgents(task, first) IN
    [k \in 1..Len(as) |-> Event(NextId + k - 1, task.kind, as[k], NORMAL, NoTime)]

\* a generator runs for the first time: `while self.is_running:` and the sleep
GenRun(g) ==
    LET task == genTasks[g] IN
    /\ task.pc = "new"
    /\ genTasks' = [genTasks EXCEPT ![g].pc =
                       IF CancelDelivered(task) THEN "cancelled"
                       ELSE IF is_running THEN "sleep" ELSE "done"]
    /\ UNCHANGED <<now, engineVars, historyVars, mgrVars, streamVars,
                   is_running, periodic_tasks, main>>
    /\ UNCHANGED <<listenerCalls, routerVars>>

\* asyncio.sleep(interval) of a generator is over: `if self.is_running:` the
\* events of the tick are queued, and the while test sends it to sleep again
GenWake(g, first) ==
    LET task == genTasks[g]
        evs == TickEvents(task, first)
    IN
    /\ task.pc = "sleep"
    /\ task.ticks < MaxTicks \/ ~is_running \/ CancelDelivered(task)
    /\ IF CancelDelivered(task)
       THEN /\ genTasks' = [genTasks EXCEPT ![g].pc = "cancelled"]
            /\ UNCHANGED <<event_queue, handed>>
       ELSE IF is_running
       THEN /\ genTasks' = [genTasks EXCEPT ![g].ticks = @ + 1]
            /\ event_queue' = event_queue \o evs
            /\ handed' = handed \o [k \in 1..Len(evs) |->
                                      [via |-> "queue", ev |-> evs[k],
                                       started |-> Len(procTasks) > 0]]
       ELSE /\ genTasks' = [genTasks EXCEPT ![g].pc = "done"]
            /\ UNCHANGED <<event_queue, handed>>
    /\ UNCHANGED <<now, scheduled_events, event_listeners, is_processing, event_history,
                   procTasks, schedTasks, invoked, raised, stopped, upSince,
                   mgrVars, streamVars, is_running, periodic_tasks, main>>
    /\ UNCHANGED <<listenerCalls, routerVars>>

\* every task of self._periodic_tasks is done
Joined(tasks) == \A g \in periodic_tasks : Finished(tasks[g])

\* shutdown past the periodic tasks, up to `await twitter_client.close()`:
\* _periodic_tasks.clear(), stop_streaming_mentions() and event_engine.stop()
ShutdownRest ==
    /\ periodic_tasks' = {}
    /\ StopStreaming
    /\ StopEffect
    /\ main' = "closing"

\* PuppetEngine.shutdown up to its first await that suspends: the flag is
\* cleared and every periodic task not done is cancelled
ShutdownBegin ==
    LET tasks == [g \in 1..Len(genTasks) |->
                     IF g \in periodic_tasks /\ ~Finished(genTasks[g])
                     THEN [genTasks[g] EXCEPT !.cancel = TRUE] ELSE genTasks[g]]
    IN
    /\ main = "running"
    /\ is_running' = FALSE
    /\ genTasks' = tasks
    /\ IF Joined(tasks)
       THEN ShutdownRest
       ELSE /\ main' = "joining"
            /\ UNCHANGED <<periodic_tasks, streamVars, is_processing, stopped, upSince>>
    /\ UNCHANGED <<now, event_queue, scheduled_events, event_listeners, event_history,
                   procTasks, schedTasks, handed, invoked, raised,
                   agents, last_post_time, next_post_times, api_error_counts,
                   api_cooldowns, processed_tweet_ids, llm_provider, twitter_client,
                   memory_store, frames, llmCalls, postCalls, memCalls, op>>
    /\ UNCHANGED <<listenerCalls, routerVars>>

\* `await task` has returned for every periodic task
ShutdownJoin ==
    /\ main = "joining"
    /\ Joined(genTasks)
    /\ ShutdownRest
    /\ UNCHANGED <<now, event_queue, scheduled_events, event_listeners, event_history,
                   procTasks, schedTasks, handed, invoked, raised,
                   agents, last_post_time, next_post_times, api_error_counts,
                   api_cooldowns, processed_tweet_ids, llm_provider, twitter_client,
                   memory_store, frames, llmCalls, postCalls, memCalls, op,
                   is_running, genTasks>>
    /\ UNCHANGED <<listenerCalls, routerVars>>

\* twitter_client.close() has returned or raised; shutdown returns
ShutdownEnd ==
    /\ main = "closing"
    /\ main' = "closed"
    /\ UNCHANGED <<now, engineVars, historyVars, mgrVars, streamVars,
                   is_running, periodic_tasks, genTasks>>
    /\ UNCHANGED <<listenerCalls, routerVars>>

\* Periodic events: agents are loaded by initialize(), the engine is started,
\* the generators tick, and shutdown() is called once start() has got to its
\* loop.
NextPeriodic ==
    \/ \E a \in AgentIds, active \in BOOLEAN :
          main = "init" /\ load_agent(a, active, NoBehavior)
    \/ PuppetStart
    \/ \E g \in 1..Len(genTasks) : GenRun(g)
    \/ \E g \in 1..Len(genTasks) : \E first \in genTasks[g].ids : GenWake(g, first)
    \/ ShutdownBegin
    \/ ShutdownJoin
    \/ ShutdownEnd

SpecPeriodic == InitGating /\ [][NextPeriodic]_vars

\* The same engine with the asyncio loop's fairness: a task that can run does
\* run, and the clock advances.
Fairness ==
    /\ \A i \in 1..MaxStarts :
          /\ WF_vars(i <= Len(procTasks) /\ event_queue # <<>> /\ ProcessLoop(i))
          /\ WF_vars(i <= Len(procTasks) /\ \E fails \in BOOLEAN : DispatchStep(i, fails))
          /\ WF_vars(i <= Len(procTasks) /\ \E fails \in BOOLEAN : ListenerDone(i, fails))
          /\ WF_vars(i <= Len(schedTasks) /\ CheckScheduled(i))
    /\ WF_vars(Tick)

FairSpec == Init /\ [][Next]_vars /\ Fairness

\* ------------------------------------------------------------------ claims
InvokedAt(id) == {k \in 1..Len(invoked) : invoked[k].ev = id}
InQueue(id) == \E k \in 1..Len(event_queue) : event_queue[k].id = id
IsPending(id) == \E k \in 1..Len(scheduled_events) : scheduled_events[k].id = id
Recorded(id) == \E k \in 1..Len(event_history) : event_history[k].id = id
Dispatching(id) == \E i \in 1..Len(procTasks) :
                      procTasks[i].pc \in {"dispatch", "await"} /\ procTasks[i].event.id = id
QueuedAt == {k \in 1..Len(handed) : handed[k].via = "queue"}
ScheduledAt == {k \in 1..Len(handed) : handed[k].via = "schedule"}

\* C1: of the events put in the live queue before the first start(), one of a
\* higher priority is handed to its listeners before any of a lower priority:
\* once a listener has been invoked for the lower one, the higher one is no
\* longer waiting and none of its invocations comes later.
C1_PriorityOrder ==
    \A hi \in QueuedAt, lo \in QueuedAt :
        (/\ ~handed[hi].started /\ ~handed[lo].started
         /\ handed[hi].ev.priority > handed[lo].ev.priority
         /\ InvokedAt(lo) # {})
        => /\ ~InQueue(hi)
           /\ \A a \in InvokedAt(hi), b \in InvokedAt(lo) : a < b

\* C2: with the engine started once, of two events of equal priority handed to
\* queue_event one after the other, every listener invocation for the first
\* begins before any for the second.
C2_FifoWithinTier ==
    Len(procTasks) <= 1 =>
    \A e1 \in QueuedAt, e2 \in QueuedAt :
        (/\ e1 < e2
         /\ handed[e1].ev.priority = handed[e2].ev.priority
         /\ InvokedAt(e2) # {})
        => /\ ~InQueue(e1) /\ ~Dispatching(e1)
           /\ \A a \in InvokedAt(e1), b \in InvokedAt(e2) : a < b

C2_Witness ==
    \E e1 \in QueuedAt, e2 \in QueuedAt :
        /\ e1 < e2
        /\ handed[e1].ev.priority = handed[e2].ev.priority
        /\ InvokedAt(e1) # {} /\ InvokedAt(e2) # {}

\* C3: a listener that raises stops neither the dispatch of its event nor the
\* loop: no _process_events task ends by it, and once the dispatch of such an
\* event is over, every listener of its type was invoked and it is recorded.
C3_ListenerFailureIsolated ==
    /\ \A i \in 1..Len(procTasks) : procTasks[i].pc # "failed"
    /\ \A r \in raised :
          ~Dispatching(r.ev) =>
              /\ Recorded(r.ev)
              /\ \A n \in 1..r.subscribed :
                    \E k \in InvokedAt(r.ev) : invoked[k].idx = n

\* C4: the live queue holds no event whose scheduled_for is later than now.
C4_NoFutureInLiveQueue ==
    \A k \in 1..Len(event_queue) : event_queue[k].scheduled_for <= now

\* C5: an event handed to schedule_event with scheduled_for = t stays pending,
\* out of the live queue, while now < t; no listener is invoked for it before
\* t; and while the engine has been running since t or before, it is promoted
\* within one poll interval of t.
C5_PromotionCorrect ==
    \A k \in ScheduledAt :
        LET e == handed[k].ev IN
        e.scheduled_for # NoTime =>
            /\ now < e.scheduled_for => (IsPending(k) /\ ~InQueue(k))
            /\ \A a \in InvokedAt(k) : ~invoked[a].early
            /\ (is_processing /\ upSince # NoTime /\ upSince <= e.scheduled_for
                /\ IsPending(k)) => now <= e.scheduled_for + PollTicks

C5_Witness ==
    \E k \in ScheduledAt :
        /\ handed[k].ev.scheduled_for >= PollTicks
        /\ InvokedAt(k) # {}
        /\ upSince # NoTime /\ upSince < handed[k].ev.scheduled_for

\* C6: every event handed to queue_event or schedule_event is dispatched exactly
\* once while the engine keeps running: never recorded or handed to a listener
\* twice, never both pending and live, and, once the engine runs, taken from
\* the pending set and the live queue for dispatch unless the engine is stopped.
C6_ExactlyOnce ==
    /\ [](\A id \in 1..Len(handed) :
             /\ ~(IsPending(id) /\ InQueue(id))
             /\ Cardinality({k \in 1..Len(event_history) : event_history[k].id = id}) <= 1
             /\ \A n \in 1..MaxListeners :
                   Cardinality({k \in InvokedAt(id) : invoked[k].idx = n}) <= 1)
    /\ \A id \in 1..MaxEvents :
          (Len(handed) >= id /\ is_processing)
              ~> ((~IsPending(id) /\ ~InQueue(id)) \/ stopped)

\* calls of process_agent_reaction, in the order they were made
Reactions == {i \in 1..Len(frames) : frames[i].op = "react"}

\* two calls in sequence for an active agent with the same interaction id, both over
TwiceInSequence(i, j) ==
    /\ i \in Reactions /\ j \in Reactions /\ i < j
    /\ frames[i].agent = frames[j].agent /\ frames[i].active
    /\ frames[i].tweet = frames[j].tweet /\ frames[i].tweet \in TweetIds
    /\ frames[j].seq
    /\ frames[i].pc = "done" /\ frames[j].pc = "done"

\* generate_tweet raised in a call for this id
GenerateFailed(k) == \E i \in Reactions : frames[i].tweet = k /\ frames[i].failed = "llm"

\* C7 as stated: for an active agent, two calls of process_agent_reaction in
\* sequence with the same interaction id make exactly one LLM invocation and
\* exactly one post, and the ledger holds the id.
C7_ExactlyOnePostAndLLM ==
    \A i \in Reactions, j \in Reactions :
        TwiceInSequence(i, j) =>
            LET k == frames[i].tweet IN
            /\ llmCalls[k] = 1
            /\ postCalls[k] = 1
            /\ k \in processed_tweet_ids

\* C7: for an active agent, two calls of process_agent_reaction in sequence with
\* the same non-empty interaction id make at most one LLM invocation and at most
\* one post for it: exactly one LLM invocation when an LLM provider is
\* configured, exactly one post when the posting client is configured too and
\* generate_tweet did not raise, none otherwise; and the ledger holds the id.
C7_IdempotentDedup ==
    \A i \in Reactions, j \in Reactions :
        TwiceInSequence(i, j) =>
            LET k == frames[i].tweet IN
            /\ llmCalls[k] = (IF llm_provider THEN 1 ELSE 0)
            /\ postCalls[k] =
                  (IF llm_provider /\ twitter_client /\ ~GenerateFailed(k) THEN 1 ELSE 0)
            /\ k \in processed_tweet_ids
            /\ ~frames[j].passed

C7_Witness ==
    \E i \in Reactions, j \in Reactions :
        /\ TwiceInSequence(i, j)
        /\ frames[i].passed
        /\ llmCalls[frames[i].tweet] = 1 /\ postCalls[frames[i].tweet] = 1

\* C8: however calls of process_agent_reaction with the same interaction id
\* interleave, for the same agent or for different ones, at most one of them
\* passes the seen-check, and the LLM and the posting client are each called at
\* most once for the id.
C8_AtomicCheckThenMark ==
    \A k \in TweetIds :
        /\ Cardinality({i \in Reactions : frames[i].tweet = k /\ frames[i].passed}) <= 1
        /\ llmCalls[k] <= 1
        /\ postCalls[k] <= 1
        /\ (\E i \in Reactions : frames[i].tweet = k /\ frames[i].passed)
              => k \in processed_tweet_ids

C8_Witness ==
    \E i \in Reactions, j \in Reactions :
        /\ i < j
        /\ frames[i].tweet = frames[j].tweet /\ frames[i].tweet \in TweetIds
        /\ frames[i].agent # frames[j].agent
        /\ frames[i].active /\ frames[j].active
        /\ frames[i].passed /\ frames[i].pc \in {"llm", "post", "mem"}
        /\ frames[j].pc = "done" /\ ~frames[j].passed

\* the agent posted less than its minimum spacing ago
CoolingDown(a) ==
    /\ last_post_time[a] # NoTime
    /\ now - last_post_time[a] < Hours(MinHours(agents[a]))

\* a step that is a call of schedule_agent_posts for the agent: from outside, or
\* at the end of create_agent_post once the post is stored
CallsSchedule(a) ==
    \/ schedule_agent_posts(a)
    \/ \E i \in 1..Len(frames) : frames[i].agent = a /\ PostStored(i, TRUE)

\* C9: a call of schedule_agent_posts for an agent with
\* now - last_post_time < min_hours_between_posts changes nothing: the agent's
\* next post time stays, and no event joins the pending set or the live queue.
C9_CooldownNoOp ==
    [][\A a \in AgentIds :
          (CoolingDown(a) /\ CallsSchedule(a))
              => UNCHANGED <<next_post_times, scheduled_events, event_queue>>]_vars

C9_Witness ==
    /\ op.name = "schedule_agent_posts" /\ op.outcome = "cooldown"
    /\ agents[op.agent].is_active
    /\ CoolingDown(op.agent)
    /\ \E i \in 1..Len(frames) :
          frames[i].op = "post" /\ frames[i].agent = op.agent /\ frames[i].pc = "done"

\* C10: a call of schedule_agent_posts for an active agent outside its minimum
\* spacing adds exactly one event to the pending set, an agent_post for that
\* agent with scheduled_for equal to the agent's new next post time, which lies
\* between now + min_hours_between_posts and now + max_hours_between_posts; the
\* live queue is untouched.
C10_OnePostEventInRange ==
    [][\A a \in AgentIds :
          (agents[a].loaded /\ agents[a].is_active /\ ~CoolingDown(a)
           /\ schedule_agent_posts(a))
              => /\ Len(scheduled_events') = Len(scheduled_events) + 1
                 /\ SubSeq(scheduled_events', 1, Len(scheduled_events)) = scheduled_events
                 /\ LET e == scheduled_events'[Len(scheduled_events')] IN
                       /\ e.type = "agent_post"
                       /\ e.agent_id = a
                       /\ e.scheduled_for = next_post_times'[a]
                 /\ now + Hours(MinHours(agents[a])) <= next_post_times'[a]
                 /\ next_post_times'[a] <= now + Hours(MaxHours(agents[a]))
                 /\ event_queue' = event_queue]_vars

\* C11: for every agent with a next post time and a last post time, the next
\* post time is at least the last post time plus min_hours_between_posts (stated
\* for agents whose configured minimum does not exceed the maximum).
C11_NextPostAfterSpacing ==
    \A a \in AgentIds :
        (/\ next_post_times[a] # NoTime
         /\ last_post_time[a] # NoTime
         /\ MinHours(agents[a]) <= MaxHours(agents[a]))
            => next_post_times[a] >= last_post_time[a] + Hours(MinHours(agents[a]))

\* the backoff the n-th error in a row gives, in minutes
ExpectedBackoff(n) ==
    CASE n = 1 -> 2 [] n = 2 -> 4 [] n = 3 -> 8 [] n = 4 -> 16 [] n = 5 -> 32
      [] OTHER -> 60

\* C12: a call of _handle_api_error for an agent raises that agent's error
\* counter by exactly one and sets its cooldown to end min(2^counter, 60)
\* minutes after now, counter being the raised one: 2, 4 and 8 minutes for the
\* first three errors, 60 from the sixth on; the counters and cooldowns of the
\* other agents stay.
C12_BackoffSchedule ==
    [][\A a \in AgentIds :
          handle_api_error(a) =>
              /\ api_error_counts'[a] = api_error_counts[a] + 1
              /\ api_cooldowns'[a].at = now
              /\ api_cooldowns'[a].minutes = ExpectedBackoff(api_error_counts'[a])
              /\ \A b \in AgentIds \ {a} :
                    /\ api_error_counts'[b] = api_error_counts[b]
                    /\ api_cooldowns'[b] = api_cooldowns[b]]_vars

C12_Witness ==
    \E a \in AgentIds, b \in AgentIds :
        /\ op.name = "_handle_api_error" /\ op.agent = a
        /\ api_error_counts[a] = MaxErrors /\ api_cooldowns[a].minutes = 60
        /\ api_error_counts[b] = 3 /\ api_cooldowns[b].minutes = 8

\* C13: under a clock that never runs backwards, each call of _handle_api_error
\* for an agent sets a cooldown end no earlier than the one the previous call
\* set, and never more than 60 minutes after the call.
C13_CooldownMonotone ==
    [][\A a \in AgentIds :
          handle_api_error(a) =>
              /\ api_cooldowns[a] # NoCooldown
                    => CooldownEnd(api_cooldowns'[a]) >= CooldownEnd(api_cooldowns[a])
              /\ CooldownEnd(api_cooldowns'[a]) - Instant(now) <= 60 * TicksPerHour
              /\ CooldownEnd(api_cooldowns'[a]) > Instant(now)]_vars

C13_Witness ==
    \E a \in AgentIds :
        /\ op.name = "_handle_api_error" /\ op.agent = a
        /\ api_error_counts[a] >= 2
        /\ api_cooldowns[a].at = now /\ now > 0
        /\ api_cooldowns[a].minutes > 2

\* calls of create_agent_post, in the order they were made
Posts == {i \in 1..Len(frames) : frames[i].op = "post"}

\* C14: no step lowers an agent's error counter: not a failure, and not a post
\* that succeeds after one.
C14_CounterNeverDecreases ==
    [][\A a \in AgentIds : api_error_counts'[a] >= api_error_counts[a]]_vars

C14_Witness ==
    \E i \in Posts, j \in Posts :
        /\ i < j /\ frames[i].agent = frames[j].agent
        /\ frames[i].failed \in {"post", "mem"}
        /\ frames[j].pc = "done" /\ frames[j].failed = "no" /\ frames[j].posted # NoTime
        /\ api_error_counts[frames[i].agent] = 1

\* C15: when generate_tweet or post_tweet fails in create_agent_post for an
\* active agent, the agent's error counter goes up by exactly one and its
\* cooldown is set from now, last_post_time stays, and no post event is
\* scheduled.
C15_FailureRecordsError ==
    [][\A i \in 1..Len(frames) :
          (frames[i].op = "post" /\ frames[i].active
           /\ (PostGenerated(i, FALSE) \/ PostPosted(i, FALSE)))
              => LET a == frames[i].agent IN
                 /\ api_error_counts'[a] = api_error_counts[a] + 1
                 /\ api_cooldowns'[a] # NoCooldown /\ api_cooldowns'[a].at = now
                 /\ UNCHANGED <<last_post_time, agents, next_post_times,
                                scheduled_events, event_queue>>]_vars

\* C16: when generate_tweet and post_tweet both succeed in create_agent_post for
\* an active agent, last_post_time is set to now on the agent record and in the
\* manager's map, and the call ends with the post stored in memory (when a
\* memory store is configured) and schedule_agent_posts called again.
C16_SuccessPath ==
    /\ [][\A i \in 1..Len(frames) :
             (frames[i].op = "post" /\ PostPosted(i, TRUE))
                 => /\ last_post_time'[frames[i].agent] = now
                    /\ agents'[frames[i].agent].last_post_time = now]_vars
    /\ [](\A i \in Posts :
             (frames[i].pc = "done" /\ frames[i].posted # NoTime)
                 => /\ frames[i].rescheduled
                    /\ memory_store => (frames[i].failed = "no" /\ memCalls[frames[i].agent] >= 1))

\* C20: after every mood update, whatever the payload of the mood event, every
\* component of every agent's mood lies within the range of mood values.
C20_MoodClamp ==
    \A a \in AgentIds :
        \A k \in DOMAIN agents[a].current_mood :
            /\ agents[a].current_mood[k] >= MoodLow
            /\ agents[a].current_mood[k] <= MoodHigh

\* a step that is a call, for the agent, of an operation gated on the active flag
GatedCall(a) ==
    \/ schedule_agent_posts(a)
    \/ create_agent_post(a)
    \/ \E k \in TweetIds : process_agent_reaction(a, k)
    \/ \E type \in EventOps : \E data \in EventData(type) : process_agent_event(a, type, data)

\* C17: for a loaded agent whose active flag is false, schedule_agent_posts,
\* create_agent_post, process_agent_reaction and process_agent_event return at
\* once: no collaborator is called then or later for the call, and the post
\* times, the error counter and cooldown, the dedup ledger, the agent record
\* with its mood, and the pending and live event collections are unchanged.
C17_InactiveGating ==
    [][\A a \in AgentIds :
          (agents[a].loaded /\ ~agents[a].is_active /\ GatedCall(a))
              => /\ UNCHANGED <<next_post_times, last_post_time, api_error_counts,
                                api_cooldowns, processed_tweet_ids, agents,
                                scheduled_events, event_queue,
                                llmCalls, postCalls, memCalls>>
                 /\ Len(frames') > Len(frames) => frames'[Len(frames')].pc = "done"]_vars

C17_Witness ==
    \E a \in AgentIds :
        /\ agents[a].loaded /\ ~agents[a].is_active
        /\ op.agent = a /\ op.name = "schedule_agent_posts" /\ op.outcome = "inactive"
        /\ \E i \in 1..Len(frames), j \in 1..Len(frames) :
              /\ frames[i].agent = a /\ frames[i].op = "mood_event"
              /\ frames[j].agent = a /\ frames[j].op \in {"post", "react"}
              /\ frames[i].pc = "done" /\ frames[j].pc = "done"
        /\ llmCalls[a] = 0 /\ postCalls[a] = 0 /\ memCalls[a] = 0
        /\ agents[a].current_mood = NoMood

\* the cooldown set by the agent's last API error has not ended
InBackoff(a) ==
    /\ api_cooldowns[a] # NoCooldown
    /\ Instant(now) < CooldownEnd(api_cooldowns[a])

\* C18: while now is before the cooldown end that _handle_api_error recorded for
\* an agent, a call of create_agent_post for that agent calls neither the LLM
\* nor the posting client.
C18_BackoffBarsPosting ==
    [][\A a \in AgentIds :
          (InBackoff(a) /\ create_agent_post(a))
              => /\ UNCHANGED <<llmCalls, postCalls>>
                 /\ frames'[Len(frames')].pc = "done"]_vars

\* C19: any two successful posts that create_agent_post makes for an agent, over
\* loads, calls of schedule_agent_posts and dispatches of its agent_post events,
\* are at least min_hours_between_posts apart (stated for agents whose
\* configured minimum does not exceed the maximum).
C19_MinimumSpacing ==
    \A i \in Posts, j \in Posts :
        (/\ i < j /\ frames[i].agent = frames[j].agent
         /\ frames[i].posted # NoTime /\ frames[j].posted # NoTime
         /\ MinHours(agents[frames[i].agent]) <= MaxHours(agents[frames[i].agent]))
            => frames[j].posted - frames[i].posted
                  >= Hours(MinHours(agents[frames[i].agent]))

\* s is q with nothing taken from it (events may have been added at the end)
Extends(s, q) == Len(s) >= Len(q) /\ SubSeq(s, 1, Len(q)) = q

\* stop() was called and start() has not been called since
Halted == stopped /\ upSince = NoTime

\* C21: after stop(), while the engine is not started again, no event that had
\* not begun dispatch is handed to a listener: every step leaves the live queue
\* and the pending set with all they held, no _process_events task takes an
\* event, and a listener invocation that begins is one of an event whose
\* dispatch was under way.
C21_NoDispatchAfterStop ==
    [][Halted =>
          /\ Extends(event_queue', event_queue)
          /\ Extends(scheduled_events', scheduled_events)
          /\ \A i \in 1..Len(procTasks) :
                procTasks[i].pc = "loop" => procTasks'[i].pc # "dispatch"
          /\ invoked' # invoked =>
                \E i \in 1..Len(procTasks) :
                    /\ procTasks[i].pc = "dispatch"
                    /\ procTasks[i].event.id = invoked'[Len(invoked')].ev]_vars

\* the engine was stopped with an event live and an event pending and due;
\* both loops have since come back to their test and left
C21_Witness ==
    /\ Halted
    /\ event_queue # <<>>
    /\ \E k \in 1..Len(scheduled_events) : IsReady(scheduled_events[k], now)
    /\ \A i \in 1..Len(procTasks) : procTasks[i].pc = "done"
    /\ \A j \in 1..Len(schedTasks) : schedTasks[j].pc = "done"
    /\ procTasks # <<>>

\* C22: stop() returns only once no listener invocation is in flight: in the
\* state it returns in, no _process_events task is inside an awaited listener.
C22_StopAwaitsInFlight ==
    [][stop => \A i \in 1..Len(procTasks) : procTasks'[i].pc # "await"]_vars

\* the events whose dispatch is over: handed to the engine, no longer waiting
\* and not with a _process_events task
Dispatched == Len(handed) - Len(event_queue) - Len(scheduled_events)
              - Cardinality({i \in 1..Len(procTasks) : procTasks[i].event # NoEvent})

\* C28: the history never holds more than 1000 events, and it is the run of the
\* most recently dispatched events in dispatch order: with the engine started
\* once, so that events are dispatched one after the other as they were
\* queued, it ends with the last event dispatched and each entry is the event
\* dispatched next after the one before it; what a truncation drops is the
\* oldest entries.
C28_BoundedHistory ==
    /\ Len(event_history) <= HistoryMax
    /\ Len(procTasks) <= 1 =>
          /\ Dispatched > 0 =>
                /\ event_history # <<>>
                /\ event_history[Len(event_history)].id = Dispatched
          /\ \A k \in 1..(Len(event_history) - 1) :
                event_history[k + 1].id = event_history[k].id + 1

\* the dispatch that took the history past the cap: the oldest entries are gone
C28_Witness ==
    /\ Dispatched = HistoryMax + 1
    /\ Len(event_history) = HistoryKeep
    /\ event_history[1].id = HistoryMax + 2 - HistoryKeep

\* the dispatch of event id is over: it was taken and no task holds it
Over(id) == ~InQueue(id) /\ ~IsPending(id) /\ ~Dispatching(id)

\* C29: for every event, no listener of its type is invoked twice; once its
\* dispatch is over it is in the history and every listener subscribed was
\* invoked; it is not in the history while a listener of it is still to finish;
\* and with one _process_events task the invocations of one event are not
\* interleaved with those of another.
C29_EveryListenerOnce ==
    /\ \A id \in 1..Len(handed) :
          /\ \A n \in 1..MaxListeners :
                Cardinality({k \in InvokedAt(id) : invoked[k].idx = n}) <= 1
          /\ Recorded(id) => ~Dispatching(id)
          /\ Over(id) =>
                /\ Recorded(id)
                /\ \A r \in raised : r.ev = id =>
                      \A n \in 1..r.subscribed : \E k \in InvokedAt(id) : invoked[k].idx = n
    /\ Len(procTasks) <= 1 =>
          \A a \in 1..Len(invoked), b \in 1..Len(invoked), c \in 1..Len(invoked) :
              (a < b /\ b < c /\ invoked[a].ev = invoked[c].ev) => invoked[b].ev = invoked[a].ev

\* C30: the asynchronous listeners of one event run concurrently: while the
\* dispatch loop waits for one of them, every asynchronous listener of the
\* event has been started.
C30_ListenersConcurrent ==
    \A i \in 1..Len(procTasks) :
        procTasks[i].pc = "await" =>
            LET ls == ListenersOf(procTasks[i].event) IN
            \A n \in 1..Len(ls) :
                ls[n] \in AsyncListeners =>
                    \E k \in InvokedAt(procTasks[i].event.id) : invoked[k].idx = n

\* C23: when stop_streaming_mentions returns, every poll task there was has been
\* cancelled and has terminated.
C23_StopTerminatesTasks ==
    [][stop_streaming_mentions =>
          \A t \in 1..Len(pollTasks) : Finished(pollTasks'[t])]_vars

\* the poll tasks no longer in streaming_tasks: those a stop_streaming_mentions
\* found and dropped
Dropped == (1..Len(pollTasks)) \ Tracked

\* C24: a poll task started before a stop_streaming_mentions that has returned
\* begins no other fetch and no other process_agent_reaction call, restart or
\* not: whatever step it takes is its last.
C24_NoPollAfterStop ==
    [][\A t \in Dropped :
          pollTasks'[t] = pollTasks[t] \/ Finished(pollTasks'[t])]_vars

\* streaming was stopped and started again: the old task of an agent has ended
\* and the new one polls
C24_Witness ==
    /\ is_streaming
    /\ \E t \in Dropped, u \in Tracked :
          /\ pollTasks[t].agent = pollTasks[u].agent
          /\ pollTasks[t].fetches > 0 /\ pollTasks[t].pc = "cancelled"
          /\ pollTasks[u].pc = "fetch"

\* the poll tasks of agent a that have not ended and were not cancelled
Live(tasks, a) ==
    {t \in 1..Len(tasks) : tasks[t].agent = a /\ ~Finished(tasks[t]) /\ ~tasks[t].cancel}

\* C25: start_streaming_mentions with a twitter_client and not yet streaming
\* leaves the flag set and exactly one live poll task for each active agent, in
\* streaming_tasks, and none for any other agent; while streaming, or without a
\* twitter_client, it changes nothing, and without one the flag stays false.
C25_OneTaskPerActiveAgent ==
    [][start_streaming_mentions =>
          IF twitter_client /\ ~is_streaming
          THEN /\ is_streaming'
               /\ \A a \in AgentIds :
                     IF agents[a].loaded /\ agents[a].is_active
                     THEN /\ Cardinality(Live(pollTasks', a)) = 1
                          /\ streaming_tasks'[a] \in Live(pollTasks', a)
                     ELSE /\ Live(pollTasks', a) = {}
                          /\ streaming_tasks'[a] = NoTask
          ELSE /\ UNCHANGED streamVars
               /\ ~twitter_client => ~is_streaming']_vars

\* streaming runs with an active agent, which has its task, and an inactive
\* one, which has none
C25_Witness ==
    /\ is_streaming
    /\ \E a \in AgentIds, b \in AgentIds :
          /\ agents[a].loaded /\ agents[a].is_active /\ streaming_tasks[a] # NoTask
          /\ agents[b].loaded /\ ~agents[b].is_active /\ streaming_tasks[b] = NoTask

\* C26: a poll task ends only when it was cancelled or streaming was stopped;
\* a failure of the fetch or of a collaborator inside process_agent_reaction
\* leaves it running; every sleep of it lasts the one interval, after a failure
\* as after a poll; and when it wakes, not cancelled and still streaming, it
\* polls again.
C26_FailureKeepsPolling ==
    [][\A t \in 1..Len(pollTasks) :
          LET a == pollTasks[t]
              b == pollTasks'[t]
          IN /\ (~Finished(a) /\ Finished(b)) => (a.cancel \/ ~is_streaming)
             /\ (StreamFetched(t, FALSE, <<>>) /\ ~a.cancel) =>
                    b.pc = "retry" /\ b.interval = StreamInterval
             /\ ((\/ StreamGenerated(t, FALSE) \/ StreamPosted(t, FALSE)
                  \/ StreamStored(t, FALSE)) /\ ~a.cancel) =>
                    b.pc \in {"llm", "sleep"}
             /\ b.pc \in {"sleep", "retry"} => b.interval = StreamInterval
             /\ (StreamWake(t) /\ ~a.cancel /\ is_streaming) => b.pc = "fetch"]_vars

\* one task polls again after a fetch that failed, another after a collaborator
\* failed inside process_agent_reaction
C26_Witness ==
    /\ \E t \in 1..Len(pollTasks) :
          pollTasks[t].error = "fetch" /\ pollTasks[t].pc = "fetch"
    /\ \E t \in 1..Len(pollTasks) :
          pollTasks[t].error \in {"llm", "post", "mem"} /\ pollTasks[t].pc = "fetch"

\* C27: once shutdown has cleared the running flag no event is handed to the
\* engine any more; when shutdown has finished every generator task has
\* ended; and until shutdown is called no generator has ended, so none left
\* at its first run because the flag was not yet set.
C27_GeneratorsFollowFlag ==
    /\ [](\A g \in 1..Len(genTasks) :
             /\ main = "closed" => Finished(genTasks[g])
             /\ main = "running" => ~Finished(genTasks[g]))
    /\ [][(main # "init" /\ ~is_running) => handed' = handed]_vars

\* shutdown has finished after the three generators were started: all of them
\* have ended, and one had queued its events before
C27_Witness ==
    /\ main = "closed"
    /\ Len(genTasks) = Len(GenKinds)
    /\ \A g \in 1..Len(genTasks) : Finished(genTasks[g])
    /\ \E g \in 1..Len(genTasks) : genTasks[g].kind = "mood_event" /\ genTasks[g].ticks > 0
    /\ event_queue # <<>>

\* ------------------------------------------------------------- restarts
\* start() and stop() called in any order, start() up to MaxLoops times: start
\* has no test of is_processing or of the tasks it made before.
NextLoops ==
    \/ Len(procTasks) < MaxLoops /\ start
    \/ stop
    \/ \E e \in NewEvents(EngineTypes, {NORMAL}, {NoTime}) :
          NextId <= MaxEvents /\ queue_event(e)
    \/ \E type \in EngineTypes, l \in Listeners : add_event_listener(type, l)
    \/ \E i \in 1..Len(procTasks) : ProcessLoop(i)
    \/ \E i \in 1..Len(procTasks), fails \in BOOLEAN : DispatchStep(i, fails)
    \/ \E i \in 1..Len(procTasks), fails \in BOOLEAN : ListenerDone(i, fails)
    \/ \E j \in 1..Len(schedTasks) : CheckScheduled(j)

SpecLoops == Init /\ [][NextLoops]_vars

\* the _process_events tasks that have not ended, those of them that hold an
\* event, and the _check_scheduled_events tasks that have not ended
LiveDispatch == {i \in 1..Len(procTasks) : procTasks[i].pc \notin {"done", "failed"}}
Holding == {i \in 1..Len(procTasks) : procTasks[i].pc \in {"dispatch", "await"}}
LivePromotion == {j \in 1..Len(schedTasks) : schedTasks[j].pc # "done"}

\* C35: whatever start() and stop() calls were made, at most one dispatch loop
\* and at most one promotion loop are live, and no two events are being
\* dispatched at the same time.
C35_OneLoopOfEach ==
    /\ Cardinality(LiveDispatch) <= 1
    /\ Cardinality(LivePromotion) <= 1
    /\ Cardinality(Holding) <= 1

\* ------------------------------------------------------------- loading
\* Configurations with and without an id are loaded, and posts are asked for,
\* while the clock runs.
NextLoad ==
    \/ \E a \in AgentIds \cup {NoAgent}, active \in BOOLEAN, b \in Behaviors :
          load_agent(a, active, b)
    \/ \E a \in AgentIds : schedule_agent_posts(a)
    \/ TickHour

SpecLoad == InitAgents /\ [][NextLoad]_vars

\* C32: load_agent with a configuration that has no id raises to the caller and
\* leaves the scheduler as it was: no agent registered, no provider mapped, no
\* next_post_time set, no post event scheduled or queued.
C32_MissingIdIsFatal ==
    [][\A active \in BOOLEAN, b \in Behaviors :
          load_agent(NoAgent, active, b) =>
              /\ op'.outcome = "raised"
              /\ UNCHANGED <<agents, next_post_times, last_post_time,
                             scheduled_events, event_queue, handed>>]_vars

\* a configuration without an id was refused after another agent was loaded
C32_Witness ==
    /\ op = [name |-> "load_agent", agent |-> NoAgent, outcome |-> "raised"]
    /\ \E a \in AgentIds : agents[a].loaded /\ agents[a].provider
    /\ scheduled_events # <<>>

\* the post events of agent a awaiting dispatch: positions in the pending set
\* and in the live queue
PendingPosts(a) ==
    {k \in 1..Len(scheduled_events) :
        scheduled_events[k].type = "agent_post" /\ scheduled_events[k].agent_id = a}
QueuedPosts(a) ==
    {k \in 1..Len(event_queue) :
        event_queue[k].type = "agent_post" /\ event_queue[k].agent_id = a}

\* C37: an agent has at most one post event awaiting dispatch, in the pending
\* set or the live queue, and while it is pending it is scheduled for the
\* agent's next_post_time.
C37_OnePendingPost ==
    \A a \in AgentIds :
        /\ Cardinality(PendingPosts(a)) + Cardinality(QueuedPosts(a)) <= 1
        /\ \A k \in PendingPosts(a) : scheduled_events[k].scheduled_for = next_post_times[a]

\* C38: the ledger of processed ids only grows, and an id is in it from the
\* moment a call for an active agent passed the seen-check, before the LLM or
\* the posting client is called and whatever they answer: the LLM is called at
\* most once for an id, so a reaction that failed is not tried again.
C38_LedgerOnlyGrows ==
    /\ [][processed_tweet_ids \subseteq processed_tweet_ids']_vars
    /\ [](\A i \in Reactions : frames[i].passed => frames[i].tweet \in processed_tweet_ids)
    /\ [](\A k \in TweetIds : llmCalls[k] <= 1 /\ postCalls[k] <= 1)

\* the reaction to an id failed at the LLM or the posting client, and a later
\* call with the same id for the same active agent was turned away
C38_Witness ==
    \E i \in Reactions, j \in Reactions :
        /\ i < j
        /\ frames[i].tweet = frames[j].tweet /\ frames[i].agent = frames[j].agent
        /\ frames[i].passed /\ frames[i].failed \in {"llm", "post"}
        /\ frames[j].active /\ ~frames[j].passed /\ frames[j].pc = "done"
        /\ frames[i].tweet \in processed_tweet_ids

\* C39: an agent's error counter and cooldown change only in a step in which
\* an LLM or posting call for that agent fails; when store_memory fails after
\* the post was sent, counter and cooldown stay as they are and the call still
\* ends with the next post asked for.
C39_MemoryFailureIsHarmless ==
    /\ [][\A a \in AgentIds :
             (api_error_counts'[a] # api_error_counts[a] \/ api_cooldowns'[a] # api_cooldowns[a])
                 => \E i \in Posts :
                       /\ frames[i].agent = a /\ frames[i].pc \in {"llm", "post"}
                       /\ frames'[i].pc = "done" /\ frames'[i].failed \in {"llm", "post"}]_vars
    /\ [](\A i \in Posts :
             (frames[i].pc = "done" /\ frames[i].failed = "mem")
                 => frames[i].posted # NoTime /\ frames[i].rescheduled)

\* ------------------------------------------------------------- cadence
\* Posting cadence: active agents with a minimum spacing above zero, on a
\* manager whose collaborators all succeed; the engine dispatches the post
\* events as they come due and the clock runs.
CadenceBehaviors == {b \in Behaviors : Hours(MinHours([behavior |-> b])) > 0}

NextCadence ==
    \/ \E a \in AgentIds, b \in CadenceBehaviors : load_agent(a, TRUE, b)
    \/ \E k \in 1..Len(scheduled_events) : handle_agent_post_event(k)
    \/ \E i \in 1..Len(frames) : PostGenerated(i, TRUE)
    \/ \E i \in 1..Len(frames) : PostPosted(i, TRUE)
    \/ \E i \in 1..Len(frames) : PostStored(i, TRUE)
    \/ TickHour

\* the loop runs every task that can run, a due event is dispatched, a
\* collaborator call returns, and the clock advances
CadenceFairness ==
    /\ WF_vars(\E k \in 1..Len(scheduled_events) : handle_agent_post_event(k))
    /\ WF_vars(\E i \in 1..Len(frames) : PostGenerated(i, TRUE))
    /\ WF_vars(\E i \in 1..Len(frames) : PostPosted(i, TRUE))
    /\ WF_vars(\E i \in 1..Len(frames) : PostStored(i, TRUE))
    /\ WF_vars(TickHour)

FairCadence == InitGating /\ [][NextCadence]_vars /\ CadenceFairness

\* create_agent_post for agent a has returned the tweet it posted
PostReturned(a) ==
    \E i \in Posts : /\ frames[i].agent = a /\ frames[i].pc = "done"
                     /\ frames[i].failed = "no" /\ frames[i].posted # NoTime

\* C36: posting cadence is live: once a scheduled post of an agent has gone
\* through, a new post event of that agent is eventually in the pending set.
C36_CadenceIsLive ==
    \A a \in AgentIds : PostReturned(a) ~> (PendingPosts(a) # {})

\* ------------------------------------------------------------- listeners
\* The listeners AgentManager registers on the bus (_setup_event_listeners).
\* A call of one of them: the event it was given (type, agent_id, data), the
\* agents its loop has still to visit, the agent being processed, the await it
\* is suspended in, and history: the agents whose processing began, in order,
\* and those whose processing met a failure.
ListenerCall(type, target, data) ==
    [type |-> type, target |-> target, data |-> data, rest |-> <<>>, agent |-> NoAgent,
     pc |-> "run", frame |-> 0, visited |-> <<>>, failed |-> {}]

\* _handle_news_event and _handle_mood_event: `for agent_id in self.agents.keys()`;
\* _handle_interaction_event: `if agent_id and agent_id in self.agents`
ListenerAgents(type, target) ==
    IF type \in {"news_event", "mood_event"} THEN SeqOf(LoadedAgents)
    ELSE IF target # NoAgent /\ agents[target].loaded THEN <<target>>
    ELSE <<>>

\* `except Exception as error: print(...)` around the body of process_agent_event
\* and of create_agent_post: a failure of a collaborator ends the call for the
\* agent and does not leave it
Escapes_Uncaught(what) == what # "no"
Escapes(what) == FALSE

RECURSIVE ForAgents(_, _)
\* process_agent_event, "Store event in memory": suspends in store_memory when
\* there is a memory store, else the call returns and the loop goes on
StoreStep(call, st) ==
    IF memory_store
    THEN [call |-> [call EXCEPT !.pc = "mem"], st |-> [st EXCEPT !.mem = Count(@, call.agent)]]
    ELSE ForAgents(call, st)

\* the listener's loop from the agents left up to the next await that suspends:
\* an agent that is not active is passed over; for a mood event the agent's
\* current_mood is updated from event.data['mood']; for news with content the
\* LLM is asked. st holds agents, llmCalls and memCalls as the loop leaves them.
ForAgents(call, st) ==
    IF call.rest = <<>>
    THEN [call |-> [call EXCEPT !.pc = "done", !.agent = NoAgent], st |-> st]
    ELSE LET a == Head(call.rest)
             next == [call EXCEPT !.rest = Tail(@), !.agent = a]
         IN IF ~IsActive(st.agents[a])
            THEN ForAgents(next, st)
            ELSE LET went == [next EXCEPT !.visited = Append(@, a)]
                     st1 == IF call.type = "mood_event"
                            THEN [st EXCEPT !.agents[a].current_mood =
                                               DictUpdate(@, call.data.mood)]
                            ELSE st
                 IN IF call.type = "news_event" /\ call.data.content /\ llm_provider
                    THEN [call |-> [went EXCEPT !.pc = "llm"],
                          st |-> [st1 EXCEPT !.llm = Count(@, a)]]
                    ELSE StoreStep(went, st1)

ListenerState == [agents |-> agents, llm |-> llmCalls, mem |-> memCalls]

\* listener call c and the manager are left as r says
ListenerSet(c, r) ==
    /\ listenerCalls' = [listenerCalls EXCEPT ![c] = r.call]
    /\ agents' = r.st.agents
    /\ llmCalls' = r.st.llm
    /\ memCalls' = r.st.mem

\* process_agent_event has ended for the agent, with failure `what` or "no"
ListenerResume(c, what) ==
    LET call == listenerCalls[c]
        met == IF what = "no" THEN call ELSE [call EXCEPT !.failed = @ \cup {call.agent}]
    IN IF Escapes(what)
       THEN ListenerSet(c, [call |-> [met EXCEPT !.pc = "raised"], st |-> ListenerState])
       ELSE ListenerSet(c, ForAgents(met, ListenerState))

\* the engine awaits a listener before it calls the next one
ListenersIdle == \A c \in 1..Len(listenerCalls) : listenerCalls[c].pc \in {"done", "raised"}

\* _handle_news_event, _handle_mood_event or _handle_interaction_event is called
\* with an event, and runs to its first await that suspends
HandleEvent(type, target, data) ==
    /\ ListenersIdle
    /\ LET r == ForAgents([ListenerCall(type, target, data) EXCEPT
                              !.rest = ListenerAgents(type, target)], ListenerState)
       IN /\ listenerCalls' = Append(listenerCalls, r.call)
          /\ agents' = r.st.agents
          /\ llmCalls' = r.st.llm
          /\ memCalls' = r.st.mem
    /\ UNCHANGED <<now, engineVars, historyVars, last_post_time, next_post_times,
                   api_error_counts, api_cooldowns, processed_tweet_ids, llm_provider,
                   twitter_client, memory_store, frames, postCalls, op>>
    /\ UNCHANGED <<streamVars, appVars, routerVars>>

\* _handle_agent_post_event is called with an event: `if event.agent_id:
\* await self.create_agent_post(event.agent_id)`
HandleAgentPostEvent(target) ==
    /\ ListenersIdle
    /\ IF target # NoAgent
       THEN /\ CreateAgentPost(target)
            /\ listenerCalls' = Append(listenerCalls,
                  [ListenerCall("agent_post", target, [content |-> FALSE, mood |-> NoMood])
                      EXCEPT !.pc = "await", !.agent = target, !.frame = Len(frames) + 1,
                             !.visited = <<target>>])
       ELSE /\ listenerCalls' = Append(listenerCalls,
                  [ListenerCall("agent_post", target, [content |-> FALSE, mood |-> NoMood])
                      EXCEPT !.pc = "done"])
            /\ UNCHANGED <<mgrVars, streamVars, appVars, routerVars, now>>
    /\ UNCHANGED <<engineVars, historyVars>>

\* create_agent_post has returned to _handle_agent_post_event
ListenerReturns(c) ==
    LET call == listenerCalls[c]
        what == frames[call.frame].failed
    IN
    /\ call.pc = "await"
    /\ frames[call.frame].pc = "done"
    /\ listenerCalls' = [listenerCalls EXCEPT ![c] =
          [call EXCEPT !.pc = IF Escapes(what) THEN "raised" ELSE "done",
                       !.failed = IF what = "no" THEN @ ELSE @ \cup {call.agent}]]
    /\ UNCHANGED <<now, engineVars, historyVars, mgrVars, streamVars, appVars, routerVars>>

\* process_agent_event in the listener, news: generate_tweet returns or raises
ListenerGenerated(c, ok) ==
    LET call == listenerCalls[c] IN
    /\ call.pc = "llm"
    /\ IF ~ok
       THEN /\ ListenerResume(c, "llm")
            /\ UNCHANGED postCalls
       ELSE IF twitter_client
       THEN /\ listenerCalls' = [listenerCalls EXCEPT ![c].pc = "post"]
            /\ postCalls' = Count(postCalls, call.agent)
            /\ UNCHANGED <<agents, llmCalls, memCalls>>
       ELSE /\ ListenerSet(c, StoreStep(call, ListenerState))
            /\ UNCHANGED postCalls
    /\ UNCHANGED <<now, engineVars, historyVars, last_post_time, next_post_times,
                   api_error_counts, api_cooldowns, processed_tweet_ids, llm_provider,
                   twitter_client, memory_store, frames, op>>
    /\ UNCHANGED <<streamVars, appVars, routerVars>>

\* process_agent_event in the listener, news: post_tweet returns or raises
ListenerPosted(c, ok) ==
    LET call == listenerCalls[c] IN
    /\ call.pc = "post"
    /\ IF ok
       THEN ListenerSet(c, StoreStep(call, ListenerState))
       ELSE ListenerResume(c, "post")
    /\ UNCHANGED <<now, engineVars, historyVars, last_post_time, next_post_times,
                   api_error_counts, api_cooldowns, processed_tweet_ids, llm_provider,
                   twitter_client, memory_store, frames, postCalls, op>>
    /\ UNCHANGED <<streamVars, appVars, routerVars>>

\* process_agent_event in the listener: store_memory returns or raises
ListenerStored(c, ok) ==
    /\ listenerCalls[c].pc = "mem"
    /\ ListenerResume(c, IF ok THEN "no" ELSE "mem")
    /\ UNCHANGED <<now, engineVars, historyVars, last_post_time, next_post_times,
                   api_error_counts, api_cooldowns, processed_tweet_ids, llm_provider,
                   twitter_client, memory_store, frames, postCalls, op>>
    /\ UNCHANGED <<streamVars, appVars, routerVars>>

\* the mood payloads the bus delivers here
ListenerMoods == {m \in MoodDicts : DOMAIN m = {"excitement"} /\ m["excitement"] \in {MoodLow, MoodHigh}}
ListenerData(type) ==
    IF type = "mood_event" THEN {d \in EventData(type) : d.mood \in ListenerMoods}
    ELSE EventData(type)

\* Listeners: the agents are loaded (initialize() loads them before the engine
\* starts), then events of the four types reach the manager's listeners, with
\* or without a target agent, and the collaborators answer or raise.
NextListeners ==
    \/ \E a \in AgentIds, active \in BOOLEAN :
          listenerCalls = <<>> /\ load_agent(a, active, NoBehavior)
    \/ \E type \in EventOps, target \in AgentIds \cup {NoAgent} :
          \E data \in ListenerData(type) :
             Len(listenerCalls) < MaxListenerCalls /\ HandleEvent(type, target, data)
    \/ \E target \in AgentIds \cup {NoAgent} :
          Len(listenerCalls) < MaxListenerCalls /\ HandleAgentPostEvent(target)
    \/ \E c \in 1..Len(listenerCalls) : ListenerReturns(c)
    \/ \E c \in 1..Len(listenerCalls), ok \in BOOLEAN : ListenerGenerated(c, ok)
    \/ \E c \in 1..Len(listenerCalls), ok \in BOOLEAN : ListenerPosted(c, ok)
    \/ \E c \in 1..Len(listenerCalls), ok \in BOOLEAN : ListenerStored(c, ok)
    \/ \E i \in 1..Len(frames), ok \in BOOLEAN : PostGenerated(i, ok)
    \/ \E i \in 1..Len(frames), ok \in BOOLEAN : PostPosted(i, ok)
    \/ \E i \in 1..Len(frames), ok \in BOOLEAN : PostStored(i, ok)

SpecListeners == InitAgents /\ [][NextListeners]_vars

\* the calls of the broadcast listeners
Broadcasts == {c \in 1..Len(listenerCalls) :
                  listenerCalls[c].type \in {"news_event", "mood_event"}}

\* C31: no failure of the LLM, the posting client or the memory store inside a
\* listener the manager registers on the bus leaves that listener; and when a
\* broadcast listener has returned, every active agent has processed the event,
\* whatever failed for the agents before it.
C31_ListenersSwallowFailures ==
    /\ \A c \in 1..Len(listenerCalls) : listenerCalls[c].pc # "raised"
    /\ \A c \in Broadcasts :
          listenerCalls[c].pc = "done" =>
              \A a \in AgentIds : IsActive(agents[a]) => a \in Range(listenerCalls[c].visited)

\* a broadcast listener has returned: the first agent it visited met a failure
\* and a second one processed the event after it; and an agent_post listener
\* has returned from a create_agent_post that failed
C31_Witness ==
    /\ \E c \in Broadcasts :
          /\ listenerCalls[c].pc = "done"
          /\ Len(listenerCalls[c].visited) = 2
          /\ listenerCalls[c].visited[1] \in listenerCalls[c].failed
    /\ \E c \in 1..Len(listenerCalls) :
          /\ listenerCalls[c].type = "agent_post"
          /\ listenerCalls[c].pc = "done" /\ listenerCalls[c].failed # {}

\* listener call c is made, or goes on, in this step
ListenerActs(c) ==
    /\ c <= Len(listenerCalls')
    /\ c > Len(listenerCalls) \/ listenerCalls'[c] # listenerCalls[c]

\* C34: a mood event that carries a target agent id changes only that agent's
\* mood; an agent's mood is changed only by a mood event that names it or names
\* no agent.
C34_MoodEventIsTargeted ==
    [][\A b \in AgentIds :
          agents'[b].current_mood # agents[b].current_mood =>
              \E c \in 1..Len(listenerCalls') :
                  /\ ListenerActs(c)
                  /\ listenerCalls'[c].type = "mood_event"
                  /\ listenerCalls'[c].target \in {b, NoAgent}]_vars

\* ------------------------------------------------------------- EventRouter
\* marionette's EventRouter (src/marionette/events/router.py): an asyncio.Queue
\* of events, handlers by type, handlers by agent and type, and one
\* _process_events task that gathers the handlers of each event.
restVars == <<now, engineVars, historyVars, mgrVars, streamVars, appVars, listenerCalls>>

RouterEvent(id, type, agent) == [id |-> id, type |-> type, agent_id |-> agent]

\* events are numbered as they are passed to dispatch_event
NextRouterId == Len(taken) + Len(router_queue) + 1

\* EventRouter.register_handler
register_handler(type, g) ==
    /\ handlers' = [handlers EXCEPT ![type] = Append(@, g)]
    /\ UNCHANGED <<agent_handlers, router_queue, processing_task, called, taken, restVars>>

\* EventRouter.register_agent_handler
register_agent_handler(a, type, h) ==
    /\ agent_handlers' = [agent_handlers EXCEPT ![a][type] = Append(@, h)]
    /\ UNCHANGED <<handlers, router_queue, processing_task, called, taken, restVars>>

\* EventRouter.dispatch_event: `await self._event_queue.put(event)` on a queue
\* with no size limit, which never suspends
dispatch_event(e) ==
    /\ router_queue' = Append(router_queue, e)
    /\ UNCHANGED <<handlers, agent_handlers, processing_task, called, taken, restVars>>

\* EventRouter.start, the first call
RouterStart ==
    /\ processing_task.pc = "none"
    /\ processing_task' = [processing_task EXCEPT !.pc = "get"]
    /\ UNCHANGED <<handlers, agent_handlers, router_queue, called, taken, restVars>>

\* asyncio.Queue.get: the oldest event
GetIndex_Last(q) == Len(q)
GetIndex(q) == 1

\* self._agent_handlers.get(agent_id, {}).get(event.type, []) when the payload
\* has an 'agent_id', else nothing
ScopedHandlers(e) ==
    IF e.agent_id = NoPayloadAgent THEN <<>> ELSE agent_handlers[e.agent_id][e.type]

\* `handlers = self._handlers.get(event.type, [])` followed by
\* `handlers.extend(agent_handlers)`: the list that is gathered
HandlersFor(e) == handlers[e.type] \o ScopedHandlers(e)

\* what extend() leaves in self._handlers: get() returned the list stored under
\* the type when there is one (a new empty list only when the type has none)
AfterExtend(e) ==
    IF handlers[e.type] # <<>>
    THEN [handlers EXCEPT ![e.type] = HandlersFor(e)]
    ELSE handlers

\* _process_events: an event is taken and its handlers are started with
\* asyncio.gather; with no handler the loop is back at get()
RouterTake ==
    LET i == GetIndex(router_queue)
        e == router_queue[i]
        list == HandlersFor(e)
    IN
    /\ processing_task.pc = "get"
    /\ router_queue # <<>>
    /\ router_queue' = [k \in 1..(Len(router_queue) - 1) |->
                           IF k < i THEN router_queue[k] ELSE router_queue[k + 1]]
    /\ handlers' = AfterExtend(e)
    /\ taken' = Append(taken, [ev |-> e,
                               registered |-> Range(handlers[e.type]) \cap GlobalHandlers,
                               scoped |-> Range(ScopedHandlers(e))])
    /\ called' = called \o [k \in 1..Len(list) |->
                              [ev |-> e.id, handler |-> list[k], failed |-> FALSE]]
    /\ processing_task' =
          IF list = <<>> THEN processing_task
          ELSE [pc |-> "gather", event |-> e,
                running |-> (Len(called) + 1)..(Len(called) + Len(list))]
    /\ UNCHANGED <<agent_handlers, restVars>>

\* _execute_handler: the handler returns, or raises into `except Exception`,
\* which prints; when the last one is over gather returns, task_done() is
\* called and the loop is back at get()
HandlerDone(k, fails) ==
    LET left == processing_task.running \ {k} IN
    /\ processing_task.pc = "gather"
    /\ k \in processing_task.running
    /\ called' = [called EXCEPT ![k].failed = fails]
    /\ processing_task' =
          IF left = {} THEN [pc |-> "get", event |-> NoRouterEvent, running |-> {}]
          ELSE [processing_task EXCEPT !.running = left]
    /\ UNCHANGED <<handlers, agent_handlers, router_queue, taken, restVars>>

\* Router: handlers are registered (each once for a type, or for an agent and a
\* type), the router is started, events with and without an agent id are
\* dispatched, and handlers return or raise.
NextRouter ==
    \/ \E type \in RouterTypes, g \in GlobalHandlers :
          g \notin Range(handlers[type]) /\ register_handler(type, g)
    \/ \E a \in RouterAgents, type \in RouterTypes, h \in AgentHandlers :
          /\ h \notin Range(agent_handlers[a][type])
          /\ register_agent_handler(a, type, h)
    \/ \E type \in RouterTypes, a \in RouterAgents \cup {NoPayloadAgent} :
          /\ NextRouterId <= MaxRouterEvents
          /\ dispatch_event(RouterEvent(NextRouterId, type, a))
    \/ RouterStart
    \/ RouterTake
    \/ \E k \in 1..Len(called), fails \in BOOLEAN : HandlerDone(k, fails)

SpecRouter == Init /\ [][NextRouter]_vars

\* the calls of handler h made for event id
CallsOf(id, h) == {k \in 1..Len(called) : called[k].ev = id /\ called[k].handler = h}

C40_AgentHandlersScoped ==
    /\ [](\A n \in 1..Len(taken), h \in AgentHandlers :
             Cardinality(CallsOf(taken[n].ev.id, h)) =
                 IF h \in taken[n].scoped THEN 1 ELSE 0)
    /\ [][RouterTake => handlers' = handlers]_vars

====
